---- MODULE Spec2Model ----
(***************************************************************************)
(* Commission DSL: the rule evaluator (RuleEvaluator), the indented-tree   *)
(* parser (IndentedTreeParser) and the rule validator (RuleValidator).     *)
(*                                                                         *)
(* Texts are TLA+ strings, read character by character with SubSeq; the    *)
(* regular expressions and parser combinators of the source are operators  *)
(* over (string, position).  A JavaScript value is a tagged record; a      *)
(* JavaScript number is an extended rational n/d (d = 0: NaN, Infinity).   *)
(* A call either returns or throws: Ret(v) and Throw(e).                   *)
(***************************************************************************)
EXTENDS Integers, Sequences, FiniteSets

VARIABLES
    pc,        \* "start": inputs drawn, no call made yet; "done": a call has completed;
               \* "reseeded", "again": before and after a second call; "loop": in parseRule
    op,        \* the entry point that was called
    rule,      \* the Rule argument of evaluateRule / validateRule
    context,   \* the Context argument of evaluateRule
    ruleText,  \* the text argument of parseRule
    outcome,   \* what the call returned or threw
    nextRandom, \* the number the generator behind random() gives next
    assigned   \* what evaluated expressions have assigned so far, name |-> value:
               \* .mathjs in this.mathScope (math.evaluate), .js in globalThis (Function)

vars == <<pc, op, rule, context, ruleText, outcome, nextRandom, assigned>>

(***************************************************************************)
(* Characters and strings                                                  *)
(***************************************************************************)
Ch(s, i) == IF i >= 1 /\ i <= Len(s) THEN SubSeq(s, i, i) ELSE ""

DigitStr == "0123456789"
\* printable ASCII in code-point order (the double quote, the backslash and the backquote left out)
AsciiStr == " !#$%&'()*+,-./0123456789:;<=>?@ABCDEFGHIJKLMNOPQRSTUVWXYZ[]^_abcdefghijklmnopqrstuvwxyz{|}~"

CharsOf(s) == {SubSeq(s, i, i) : i \in 1..Len(s)}
Digits == CharsOf(DigitStr)
Letters == CharsOf("abcdefghijklmnopqrstuvwxyz") \cup CharsOf("ABCDEFGHIJKLMNOPQRSTUVWXYZ")
\* \s of a JavaScript regular expression, as far as the texts here go
Space == {" ", "\t", "\n", "\r"}
\* [a-zA-Z_] and [a-zA-Z0-9_] (also \w)
IdentStart == Letters \cup {"_"}
IdentPart == Letters \cup Digits \cup {"_"}

DigitVal(c) == CHOOSE k \in 0..9 : Ch(DigitStr, k + 1) = c
Ord(c) == IF c \in CharsOf(AsciiStr)
          THEN CHOOSE k \in 1..Len(AsciiStr) : Ch(AsciiStr, k) = c
          ELSE 0

\* the first position >= i whose character is not in set (Len(s)+1 if none)
RECURSIVE SkipWhile(_, _, _)
SkipWhile(s, i, set) ==
    IF i <= Len(s) /\ Ch(s, i) \in set THEN SkipWhile(s, i + 1, set) ELSE i

\* s.startsWith(lit, i), 1-based
StartsWithAt(s, i, lit) ==
    /\ i + Len(lit) - 1 <= Len(s)
    /\ SubSeq(s, i, i + Len(lit) - 1) = lit

\* String.prototype.trim
RECURSIVE TrimLeft(_)
TrimLeft(s) == IF Len(s) > 0 /\ Ch(s, 1) \in Space THEN TrimLeft(SubSeq(s, 2, Len(s))) ELSE s
RECURSIVE TrimRight(_)
TrimRight(s) ==
    IF Len(s) > 0 /\ Ch(s, Len(s)) \in Space THEN TrimRight(SubSeq(s, 1, Len(s) - 1)) ELSE s
Trim(s) == TrimRight(TrimLeft(s))

\* lexicographic order of two strings by code unit: a < b
RECURSIVE StrLess(_, _)
StrLess(a, b) ==
    IF Len(b) = 0 THEN FALSE
    ELSE IF Len(a) = 0 THEN TRUE
    ELSE IF Ch(a, 1) = Ch(b, 1) THEN StrLess(SubSeq(a, 2, Len(a)), SubSeq(b, 2, Len(b)))
    ELSE Ord(Ch(a, 1)) < Ord(Ch(b, 1))

\* s repeated k times
RECURSIVE Repeat(_, _)
Repeat(s, k) ==
    LET Twice(half) == half \o half
    IN IF k <= 0 THEN ""
       ELSE IF k % 2 = 0 THEN Twice(Repeat(s, k \div 2))
       ELSE s \o Repeat(s, k - 1)

(***************************************************************************)
(* JavaScript values                                                       *)
(***************************************************************************)
Abs(i) == IF i < 0 THEN -i ELSE i
RECURSIVE Gcd(_, _)
Gcd(a, b) == IF b = 0 THEN a ELSE Gcd(b, a % b)

\* the number n/d, normalised; d = 0 stands for NaN (n = 0), +Infinity (n > 0), -Infinity (n < 0)
Num(n, d) ==
    IF d = 0 THEN [t |-> "num", n |-> (IF n > 0 THEN 1 ELSE IF n < 0 THEN -1 ELSE 0), d |-> 0]
    ELSE LET Reduced(sn, sd, g) == [t |-> "num", n |-> sn \div g, d |-> sd \div g]
         IN Reduced(IF d < 0 THEN -n ELSE n, Abs(d), Gcd(Abs(n), Abs(d)))
N(i) == [t |-> "num", n |-> i, d |-> 1]
NaN == [t |-> "num", n |-> 0, d |-> 0]
Str(s) == [t |-> "str", s |-> s]
Bool(b) == [t |-> "bool", b |-> b]
Arr(a) == [t |-> "arr", a |-> a]
Undefined == [t |-> "undef"]
\* a member an object inherits from Object.prototype: the function of that
\* name (for __proto__, the prototype object)
Inherited(name) == [t |-> "obj", s |-> name]

IsNaN(x) == x.t = "num" /\ x.d = 0 /\ x.n = 0
\* Number.isFinite, Number.isInteger
IsFinite(x) == x.t = "num" /\ x.d # 0
IsInteger(x) == x.t = "num" /\ x.d = 1

Ret(v) == [kind |-> "return", value |-> v]
Throw(e) == [kind |-> "throw", error |-> e]
Returned(r) == r.kind = "return"
Threw(r) == r.kind = "throw"

(***************************************************************************)
(* Conversions of JavaScript: String(value), Number(string), and the       *)
(* comparison operators as the evaluator's switch uses them                *)
(***************************************************************************)
RECURSIVE NatToString(_)
NatToString(k) ==
    IF k < 10 THEN Ch(DigitStr, k + 1)
    ELSE NatToString(k \div 10) \o Ch(DigitStr, (k % 10) + 1)

\* the fraction r/d (0 <= r < d) in decimal digits; a fraction that does not
\* terminate is cut after FractionDigits digits
RECURSIVE FractionToString(_, _, _)
FractionToString(r, d, left) ==
    IF r = 0 \/ left = 0 THEN ""
    ELSE Ch(DigitStr, ((r * 10) \div d) + 1) \o FractionToString((r * 10) % d, d, left - 1)

FractionDigits == 16

\* Number.prototype.toString
NumberToString(x) ==
    IF x.d = 0 THEN (IF x.n = 0 THEN "NaN" ELSE IF x.n > 0 THEN "Infinity" ELSE "-Infinity")
    ELSE LET Joined(whole, frac) ==
                 (IF x.n < 0 THEN "-" ELSE "") \o whole \o (IF frac = "" THEN "" ELSE "." \o frac)
         IN Joined(NatToString(Abs(x.n) \div x.d),
                   FractionToString(Abs(x.n) % x.d, x.d, FractionDigits))

\* String(value); an array is its elements' strings joined by commas
RECURSIVE StringOf(_)
StringOf(x) ==
    CASE x.t = "num" -> NumberToString(x)
      [] x.t = "str" -> x.s
      [] x.t = "bool" -> (IF x.b THEN "true" ELSE "false")
      [] x.t = "arr" ->
            (IF Len(x.a) = 0 THEN ""
             ELSE IF Len(x.a) = 1 THEN StringOf(x.a[1])
             ELSE StringOf(x.a[1]) \o "," \o StringOf(Arr(Tail(x.a))))
      [] x.t = "obj" ->
            (IF x.s = "__proto__" THEN "[object Object]"
             ELSE "function " \o (IF x.s = "constructor" THEN "Object" ELSE x.s)
                  \o "() { [native code] }")
      [] OTHER -> "undefined"

\* the digits s[i..j-1] as a natural number
RECURSIVE DigitsToNat(_, _, _, _)
DigitsToNat(s, i, j, acc) ==
    IF i >= j THEN acc ELSE DigitsToNat(s, i + 1, j, acc * 10 + DigitVal(Ch(s, i)))

RECURSIVE Pow10(_)
Pow10(k) == IF k <= 0 THEN 1 ELSE 10 * Pow10(k - 1)

\* Number(string): the trimmed text as a decimal literal [+-]digits[.digits],
\* the empty text as 0, anything else NaN
\* the decimal literal s[i0..]: whole part s[i0..i1-1], fraction s[i1+1..i2-1]
\* (i2 = i1: no fraction)
DecimalLiteral(s, i0, i1, i2) ==
    LET Value(mag, scale) == Num(IF Ch(s, 1) = "-" THEN -mag ELSE mag, scale)
    IN IF i1 > i0 /\ i2 = Len(s) + 1
       THEN Value(DigitsToNat(s, i0, i1, 0) * Pow10(i2 - i1 - 1)
                    + DigitsToNat(s, i1 + 1, i2, 0),
                  Pow10(i2 - i1 - 1))
       ELSE NaN

StringToNumber(str) ==
    LET Signed(s, i0) ==
            LET Whole(i1) ==
                    DecimalLiteral(s, i0, i1,
                                   IF Ch(s, i1) = "." /\ Ch(s, i1 + 1) \in Digits
                                   THEN SkipWhile(s, i1 + 1, Digits)
                                   ELSE i1)
            IN IF Len(s) = 0 THEN [t |-> "num", n |-> 0, d |-> 1]
               ELSE Whole(SkipWhile(s, i0, Digits))
    IN Signed(Trim(str), IF Ch(Trim(str), 1) \in {"-", "+"} THEN 2 ELSE 1)

\* ToPrimitive: an array becomes its string
ToPrimitive(x) == IF x.t \in {"arr", "obj"} THEN Str(StringOf(x)) ELSE x

\* ToNumber of a primitive
ToNumber(x) ==
    CASE x.t = "num" -> x
      [] x.t = "bool" -> (IF x.b THEN N(1) ELSE N(0))
      [] x.t = "str" -> StringToNumber(x.s)
      [] OTHER -> NaN

\* a < b on numbers; FALSE when either is NaN
NumLess(a, b) ==
    IF IsNaN(a) \/ IsNaN(b) THEN FALSE
    ELSE IF a.d = 0 /\ b.d = 0 THEN a.n < b.n
    ELSE IF a.d = 0 THEN a.n < 0
    ELSE IF b.d = 0 THEN b.n > 0
    ELSE a.n * b.d < b.n * a.d

\* the relational comparison x < y of JavaScript: "true", "false" or
\* "undefined" (a NaN operand)
LessThan(x, y) ==
    LET Numeric(nx, ny) ==
            IF IsNaN(nx) \/ IsNaN(ny) THEN "undefined"
            ELSE IF NumLess(nx, ny) THEN "true" ELSE "false"
        Primitive(px, py) ==
            IF px.t = "str" /\ py.t = "str"
            THEN (IF StrLess(px.s, py.s) THEN "true" ELSE "false")
            ELSE Numeric(ToNumber(px), ToNumber(py))
    IN Primitive(ToPrimitive(x), ToPrimitive(y))

\* x o y for o in > < >= <=:  x > y is y < x, x <= y is not (y < x), x >= y
\* is not (x < y); a comparison with NaN is false
Relational(o, x, y) ==
    LET Swapped(a, b) == LessThan(a, b) = (IF o \in {"<", ">"} THEN "true" ELSE "false")
    IN Swapped(IF o \in {">", "<="} THEN y ELSE x, IF o \in {">", "<="} THEN x ELSE y)

\* x === y.  Two arrays are equal only when they are the same object
\* (sameObject); NaN equals nothing.
StrictEquals(x, y, sameObject) ==
    IF x.t # y.t THEN FALSE
    ELSE CASE x.t = "num" -> ~IsNaN(x) /\ x.n = y.n /\ x.d = y.d
           [] x.t = "str" -> x.s = y.s
           [] x.t = "bool" -> x.b = y.b
           [] x.t = "arr" -> sameObject
           [] x.t = "obj" -> x.s = y.s
           [] OTHER -> TRUE

\* (a fault: the needle is compared as text, so 1 is found in ["1"])
Includes_Coercing(a, x) == \E k \in 1..Len(a) : StringOf(a[k]) = StringOf(x)

\* Array.prototype.includes (SameValueZero) for a primitive or array needle
RECURSIVE Includes(_, _)
Includes(a, x) ==
    IF Len(a) = 0 THEN FALSE
    ELSE IF Head(a).t = x.t /\ (IF x.t = "num" THEN Head(a).n = x.n /\ Head(a).d = x.d
                                ELSE StrictEquals(Head(a), x, FALSE))
         THEN TRUE
    ELSE Includes(Tail(a), x)

(***************************************************************************)
(* Errors.  An error has a class name, a message and, when it wraps        *)
(* another error, that error as details.originalError.                     *)
(***************************************************************************)
NoError == [name |-> "none"]
Error(name, message) == [name |-> name, message |-> message, originalError |-> NoError]
Wrap(name, message, original) == [name |-> name, message |-> message, originalError |-> original]

(***************************************************************************)
(* Context: an object used as a map from names to values.  context[k] is   *)
(* the value of the key k, or the member of that name which the object    *)
(* inherits from Object.prototype, or undefined.                           *)
(***************************************************************************)
ObjectPrototype ==
    { "constructor", "toString", "toLocaleString", "valueOf", "hasOwnProperty",
      "isPrototypeOf", "propertyIsEnumerable", "__proto__", "__defineGetter__",
      "__defineSetter__", "__lookupGetter__", "__lookupSetter__" }

Lookup(ctx, k) ==
    IF k \in DOMAIN ctx THEN ctx[k]
    ELSE IF k \in ObjectPrototype THEN Inherited(k)
    ELSE Undefined

(***************************************************************************)
(* evaluateCondition / evaluateConditions, the same code in both classes   *)
(* but for the class of the error thrown.                                  *)
(***************************************************************************)
\* the switch on condition.operator
\* (a fault: "in" with a value that is no array is false instead of an error)
ApplyOperator_Lenient(errorClass, condition, leftValue, rightValue, sameObject) ==
    CASE condition.operator \in {"==", "!="} ->
            Ret(StrictEquals(leftValue, rightValue, sameObject) = (condition.operator = "=="))
      [] condition.operator \in {">", "<", ">=", "<="} ->
            Ret(Relational(condition.operator, leftValue, rightValue))
      [] condition.operator = "in" ->
            Ret(rightValue.t = "arr" /\ Includes(rightValue.a, leftValue))
      [] OTHER ->
            Throw(Error(errorClass, "Invalid operator '" \o condition.operator \o "'"))

ApplyOperator(errorClass, condition, leftValue, rightValue, sameObject) ==
    CASE condition.operator \in {"==", "!="} ->
            Ret(StrictEquals(leftValue, rightValue, sameObject) = (condition.operator = "=="))
      [] condition.operator \in {">", "<", ">=", "<="} ->
            Ret(Relational(condition.operator, leftValue, rightValue))
      [] condition.operator = "in" ->
            (IF rightValue.t = "arr"
             THEN Ret(Includes(rightValue.a, leftValue))
             ELSE Throw(Error(errorClass, "Operator 'in' requires an array value")))
      [] OTHER ->
            Throw(Error(errorClass, "Invalid operator '" \o condition.operator \o "'"))

\* the right-hand side: a string that names a key of the context is replaced
\* by the context's value.  Both sides are then the same object only when
\* they were read from the same key.
ResolveAndApply(errorClass, condition, ctx) ==
    LET Resolved(resolved) ==
            ApplyOperator(errorClass, condition,
                          Lookup(ctx, condition.field),
                          IF resolved THEN Lookup(ctx, condition.value.s) ELSE condition.value,
                          resolved /\ condition.value.s = condition.field)
    IN Resolved(condition.value.t = "str" /\ Lookup(ctx, condition.value.s).t # "undef")

\* (a fault: a missing field makes the condition false instead of an error)
EvaluateConditionAs_Defaulting(errorClass, condition, ctx) ==
    IF Lookup(ctx, condition.field).t = "undef"
    THEN Ret(FALSE)
    ELSE ResolveAndApply(errorClass, condition, ctx)

EvaluateConditionAs(errorClass, condition, ctx) ==
    IF Lookup(ctx, condition.field).t = "undef"
    THEN Throw(Error(errorClass,
                     "Missing required field '" \o condition.field \o "' in context"))
    ELSE ResolveAndApply(errorClass, condition, ctx)

\* (a fault: the conditions are not consulted)
EveryAs_NoGate(errorClass, conditions, ctx, i) == Ret(TRUE)

\* conditions.every(condition => this.evaluateCondition(condition, context)),
\* from the i-th condition on: stops at the first condition that is false or throws
RECURSIVE EveryAs(_, _, _, _)
EveryAs(errorClass, conditions, ctx, i) ==
    LET Step(r) ==
            IF Threw(r) THEN r
            ELSE IF ~r.value THEN Ret(FALSE)
            ELSE EveryAs(errorClass, conditions, ctx, i + 1)
    IN IF i > Len(conditions) THEN Ret(TRUE)
       ELSE Step(EvaluateConditionAs(errorClass, conditions[i], ctx))

RuleEvaluator_evaluateConditions(conditions, ctx) ==
    EveryAs("EvaluatorError", conditions, ctx, 1)

IndentedTreeParser_evaluateConditions(conditions, ctx) ==
    EveryAs("ParserError", conditions, ctx, 1)

(***************************************************************************)
(* substituteVariables: expression.replace(/\b[a-zA-Z_][a-zA-Z0-9_]*\b/g,  *)
(* ...).  A match is a maximal run of word characters that does not start  *)
(* with a digit; a run that starts with a digit holds no match, since \b   *)
(* fails inside it.  Replaced text is not scanned again.                   *)
(***************************************************************************)
\* (a fault: a name the context does not bind is replaced by 0)
RECURSIVE SubstituteFrom_Zero(_, _, _, _, _)
SubstituteFrom_Zero(errorClass, expression, ctx, i, acc) ==
    IF i > Len(expression) THEN Ret(acc)
    ELSE IF Ch(expression, i) \notin IdentPart
         THEN SubstituteFrom_Zero(errorClass, expression, ctx, i + 1, acc \o Ch(expression, i))
    ELSE LET Replace(j, match) ==
                 SubstituteFrom_Zero(errorClass, expression, ctx, j,
                     acc \o (IF Ch(expression, i) \notin IdentStart THEN match
                             ELSE IF Lookup(ctx, match).t = "undef" THEN "0"
                             ELSE StringOf(Lookup(ctx, match))))
             Word(j) == Replace(j, SubSeq(expression, i, j - 1))
         IN Word(SkipWhile(expression, i, IdentPart))

RECURSIVE SubstituteFrom(_, _, _, _, _)
SubstituteFrom(errorClass, expression, ctx, i, acc) ==
    IF i > Len(expression) THEN Ret(acc)
    ELSE IF Ch(expression, i) \notin IdentPart
         THEN SubstituteFrom(errorClass, expression, ctx, i + 1, acc \o Ch(expression, i))
    ELSE LET Replace(j, match) ==
                 IF Ch(expression, i) \notin IdentStart
                 THEN SubstituteFrom(errorClass, expression, ctx, j, acc \o match)
                 ELSE IF Lookup(ctx, match).t = "undef"
                      THEN Throw(Error(errorClass,
                                       "Missing required variable '" \o match \o "' in context"))
                 ELSE SubstituteFrom(errorClass, expression, ctx, j,
                                     acc \o StringOf(Lookup(ctx, match)))
             Word(j) == Replace(j, SubSeq(expression, i, j - 1))
         IN Word(SkipWhile(expression, i, IdentPart))

RuleEvaluator_substituteVariables(expression, ctx) ==
    SubstituteFrom("EvaluatorError", expression, ctx, 1, "")

IndentedTreeParser_substituteVariables(expression, ctx) ==
    SubstituteFrom("ParserError", expression, ctx, 1, "")

(***************************************************************************)
(* Arithmetic on numbers (IEEE special values kept: NaN, +-Infinity; the   *)
(* finite values are exact rationals, and -0 is 0)                         *)
(***************************************************************************)
Sign(i) == IF i > 0 THEN 1 ELSE IF i < 0 THEN -1 ELSE 0

NumNeg(a) == [t |-> "num", n |-> -a.n, d |-> a.d]

NumAdd(a, b) ==
    IF IsNaN(a) \/ IsNaN(b) THEN NaN
    ELSE IF a.d = 0 /\ b.d = 0 THEN (IF a.n = b.n THEN a ELSE NaN)
    ELSE IF a.d = 0 THEN a
    ELSE IF b.d = 0 THEN b
    ELSE Num(a.n * b.d + b.n * a.d, a.d * b.d)

NumMul(a, b) ==
    IF IsNaN(a) \/ IsNaN(b) THEN NaN
    ELSE IF a.d = 0 \/ b.d = 0 THEN Num(Sign(a.n) * Sign(b.n), 0)
    ELSE Num(a.n * b.n, a.d * b.d)

NumDiv(a, b) ==
    IF IsNaN(a) \/ IsNaN(b) THEN NaN
    ELSE IF a.d = 0 /\ b.d = 0 THEN NaN
    ELSE IF a.d = 0 THEN Num(Sign(a.n) * (IF b.n < 0 THEN -1 ELSE 1), 0)
    ELSE IF b.d = 0 THEN N(0)
    ELSE IF b.n = 0 THEN Num(Sign(a.n), 0)
    ELSE Num(a.n * b.d, a.d * b.n)

\* Math.floor, Math.ceil, Math.round (half up), Math.abs
NumFloor(a) == IF a.d = 0 THEN a ELSE N(a.n \div a.d)
NumCeil(a) == IF a.d = 0 THEN a ELSE N(-((-a.n) \div a.d))
NumRound(a) == IF a.d = 0 THEN a ELSE NumFloor(NumAdd(a, Num(1, 2)))
NumAbs(a) == [t |-> "num", n |-> Abs(a.n), d |-> a.d]

\* the integer square root, by bisection: lo * lo <= k < hi * hi
RECURSIVE IsqrtBetween(_, _, _)
IsqrtBetween(k, lo, hi) ==
    IF hi - lo <= 1 THEN lo
    ELSE LET Halve(mid) ==
                 IF mid * mid <= k THEN IsqrtBetween(k, mid, hi) ELSE IsqrtBetween(k, lo, mid)
         IN Halve((lo + hi) \div 2)
Isqrt(k) == IsqrtBetween(k, 0, 46340)

SqrtScale == 100

\* Math.sqrt: exact on the square of a rational, otherwise cut to two decimals
NumSqrt(a) ==
    IF IsNaN(a) \/ a.n < 0 THEN NaN
    ELSE IF a.d = 0 THEN a
    ELSE LET Root(rn, rd) ==
                 IF rn * rn = a.n /\ rd * rd = a.d
                 THEN [t |-> "num", n |-> rn, d |-> rd]
                 ELSE Num(Isqrt((a.n * SqrtScale * SqrtScale) \div a.d), SqrtScale)
         IN Root(Isqrt(a.n), Isqrt(a.d))

\* Math.pow for an integer exponent (any other exponent is not modelled: NaN)
RECURSIVE NumPowNat(_, _)
NumPowNat(a, k) == IF k = 0 THEN N(1) ELSE NumMul(a, NumPowNat(a, k - 1))
NumPow(a, b) ==
    IF IsNaN(a) \/ IsNaN(b) \/ b.d # 1 THEN NaN
    ELSE IF b.n >= 0 THEN NumPowNat(a, b.n)
    ELSE NumDiv(N(1), NumPowNat(a, -b.n))

\* Math.min / Math.max over the arguments converted to numbers
\* (sign = 1: Math.min, starting from +Infinity; sign = -1: Math.max)
RECURSIVE NumExtreme(_, _)
NumExtreme(xs, sign) ==
    LET Pick(h, r) ==
            IF IsNaN(h) \/ IsNaN(r) THEN [t |-> "num", n |-> 0, d |-> 0]
            ELSE IF (sign = 1 /\ NumLess(r, h)) \/ (sign = -1 /\ NumLess(h, r)) THEN r
            ELSE h
    IN IF Len(xs) = 0 THEN [t |-> "num", n |-> sign, d |-> 0]
       ELSE Pick(ToNumber(Head(xs)), NumExtreme(Tail(xs), sign))

\* truthiness of a value
Truthy(x) ==
    CASE x.t = "num" -> ~IsNaN(x) /\ x.n # 0
      [] x.t = "bool" -> x.b
      [] x.t = "str" -> x.s # ""
      [] x.t = "undef" -> FALSE
      [] OTHER -> TRUE

(***************************************************************************)
(* The expression language of the two evaluators: math.evaluate (mathjs,   *)
(* with mathScope as scope) and Function(`return ${expression}`)().        *)
(* Expression texts are over letters, digits, _ . + - * / ( ) , = the      *)
(* space and "@"; a number literal is digits[.digits].  Both engines parse *)
(* the whole text first and evaluate afterwards.  Juxtaposition ("2 x") is *)
(* a syntax error here.  A text "name = expression" assigns: math.evaluate *)
(* writes the value into its scope, the function body of Function into a   *)
(* global variable; the comparison operators and an assignment inside an   *)
(* expression are outside the texts.                                       *)
(***************************************************************************)
Punctuation == {"+", "-", "*", "/", "(", ")", ",", "="}

RECURSIVE Tokenize(_, _, _)
Tokenize(s, i, acc) ==
    IF i > Len(s) THEN acc
    ELSE LET Token(kind, j) ==
                 Tokenize(s, j, Append(acc, [k |-> kind, s |-> SubSeq(s, i, j - 1)]))
             Number(i1) ==
                 Token("num", IF Ch(s, i1) = "." /\ Ch(s, i1 + 1) \in Digits
                              THEN SkipWhile(s, i1 + 1, Digits)
                              ELSE i1)
         IN IF Ch(s, i) \in Space THEN Tokenize(s, i + 1, acc)
            ELSE IF Ch(s, i) \in Digits THEN Number(SkipWhile(s, i, Digits))
            ELSE IF Ch(s, i) \in IdentStart THEN Token("id", SkipWhile(s, i, IdentPart))
            ELSE IF Ch(s, i) \in Punctuation THEN Token("op", i + 1)
            ELSE Token("bad", i + 1)

\* A parse result: [ok |-> TRUE, node, pos] or [ok |-> FALSE]
Parsed(node, pos) == [ok |-> TRUE, node |-> node, pos |-> pos]
NoParse == [ok |-> FALSE]
IsOp(toks, pos, o) == pos <= Len(toks) /\ toks[pos].k = "op" /\ toks[pos].s = o

NamedConstants == {"true", "false", "Infinity", "NaN"}

\* the reserved words of JavaScript that the texts here can spell
JsKeywords == {"if", "in", "do", "for", "new", "var", "let", "this", "void", "with",
               "else", "case", "null", "enum", "typeof", "return", "function"}

\* The grammar, by level: "seq" (JavaScript's comma operator; mathjs has
\* none), "add" (+ -), "mul" (* /), "unary" (prefix - +) and "primary" (a
\* number, a name, a call, a parenthesis).
NextLevel(level) ==
    CASE level = "seq" -> "add"
      [] level = "add" -> "mul"
      [] level = "mul" -> "unary"
      [] OTHER -> "primary"

LevelOps(dialect, level) ==
    CASE level = "seq" -> (IF dialect = "js" THEN {","} ELSE {})
      [] level = "add" -> {"+", "-"}
      [] level = "mul" -> {"*", "/"}
      [] OTHER -> {}

IsOpIn(toks, pos, ops) == pos <= Len(toks) /\ toks[pos].k = "op" /\ toks[pos].s \in ops

RECURSIVE ParseAt(_, _, _, _)
RECURSIVE ParseRest(_, _, _, _, _)
RECURSIVE ParseArgs(_, _, _, _)

ParseAt(dialect, toks, pos, level) ==
    IF level \in {"seq", "add", "mul"}
    THEN LET Operand(l) ==
                 IF ~l.ok THEN NoParse ELSE ParseRest(dialect, toks, l.pos, l.node, level)
         IN Operand(ParseAt(dialect, toks, pos, NextLevel(level)))
    ELSE IF pos > Len(toks) THEN NoParse
    ELSE IF level = "unary" /\ IsOpIn(toks, pos, {"-", "+"})
         THEN LET Signed(e) ==
                      IF ~e.ok THEN NoParse
                      ELSE Parsed([k |-> "unary", o |-> toks[pos].s, e |-> e.node], e.pos)
              IN Signed(ParseAt(dialect, toks, pos + 1, "unary"))
    ELSE CASE toks[pos].k = "num" ->
                    Parsed([k |-> "num", v |-> StringToNumber(toks[pos].s)], pos + 1)
           [] toks[pos].k = "id" ->
                    (IF dialect = "js" /\ toks[pos].s \in JsKeywords THEN NoParse
                     ELSE IF ~IsOp(toks, pos + 1, "(")
                          THEN Parsed([k |-> "sym", s |-> toks[pos].s], pos + 1)
                     ELSE IF IsOp(toks, pos + 2, ")")
                          THEN Parsed([k |-> "call", f |-> toks[pos].s, args |-> <<>>], pos + 3)
                     ELSE ParseArgs(dialect, toks, pos + 2,
                                    [k |-> "call", f |-> toks[pos].s, args |-> <<>>]))
           [] toks[pos].k = "op" /\ toks[pos].s = "(" ->
                    (LET Closed(e) ==
                             IF e.ok /\ IsOp(toks, e.pos, ")") THEN Parsed(e.node, e.pos + 1)
                             ELSE NoParse
                     IN Closed(ParseAt(dialect, toks, pos + 1, "seq")))
           [] OTHER -> NoParse

\* left (op operand)* at one level, left-associative
ParseRest(dialect, toks, pos, left, level) ==
    IF IsOpIn(toks, pos, LevelOps(dialect, level))
    THEN LET Operand(r) ==
                 IF ~r.ok THEN NoParse
                 ELSE ParseRest(dialect, toks, r.pos,
                                [k |-> (IF level = "seq" THEN "comma" ELSE "bin"),
                                 o |-> toks[pos].s, l |-> left, r |-> r.node],
                                level)
         IN Operand(ParseAt(dialect, toks, pos + 1, NextLevel(level)))
    ELSE Parsed(left, pos)

\* the arguments of a call, after "(": operand ("," operand)* ")"
ParseArgs(dialect, toks, pos, call) ==
    LET Argument(a) ==
            IF ~a.ok THEN NoParse
            ELSE IF IsOp(toks, a.pos, ")")
                 THEN Parsed([call EXCEPT !.args = Append(@, a.node)], a.pos + 1)
            ELSE IF IsOp(toks, a.pos, ",")
                 THEN ParseArgs(dialect, toks, a.pos + 1,
                                [call EXCEPT !.args = Append(@, a.node)])
            ELSE NoParse
    IN Argument(ParseAt(dialect, toks, pos, "add"))

\* the whole text as one expression, or as the assignment of one to a name:
\* [ok, node]; the empty text is the empty program
ParseExpression(dialect, text) ==
    LET Whole(toks) ==
            LET Program(e, assigns) ==
                    IF ~e.ok \/ e.pos # Len(toks) + 1 THEN [ok |-> FALSE]
                    ELSE [ok |-> TRUE, empty |-> FALSE,
                          node |-> IF assigns
                                   THEN [k |-> "assign", s |-> toks[1].s, e |-> e.node]
                                   ELSE e.node]
                Start(assigns) ==
                    Program(ParseAt(dialect, toks, IF assigns THEN 3 ELSE 1,
                                    IF assigns THEN "add" ELSE "seq"),
                            assigns)
            IN IF Len(toks) = 0 THEN [ok |-> TRUE, empty |-> TRUE]
               ELSE Start(/\ IsOp(toks, 2, "=")
                          /\ toks[1].k = "id"
                          /\ toks[1].s \notin NamedConstants
                          /\ ~(dialect = "js" /\ toks[1].s \in JsKeywords))
    IN Whole(Tokenize(text, 1, <<>>))

(***************************************************************************)
(* mathScope: the function table of RuleEvaluator, and the application of  *)
(* one of its functions to argument values (a missing argument is          *)
(* undefined)                                                              *)
(***************************************************************************)
mathScope == {"abs", "ceil", "floor", "round", "min", "max", "pow", "sqrt",
              "and", "or", "not",
              "eq", "neq", "gt", "lt", "gte", "lte",
              "if"}

Arg(args, i) == IF i <= Len(args) THEN args[i] ELSE Undefined

ApplyMathScope(f, args) ==
    LET Unary(x) ==
            CASE f = "abs" -> NumAbs(x)
              [] f = "ceil" -> NumCeil(x)
              [] f = "floor" -> NumFloor(x)
              [] f = "round" -> NumRound(x)
              [] OTHER -> NumSqrt(x)
        Apply(a, b, c, truthy) ==
            CASE f \in {"abs", "ceil", "floor", "round", "sqrt"} -> Unary(ToNumber(a))
              [] f \in {"min", "max"} -> NumExtreme(args, IF f = "min" THEN 1 ELSE -1)
              [] f = "pow" -> NumPow(ToNumber(a), ToNumber(b))
              [] f = "and" -> (IF truthy THEN b ELSE a)
              [] f = "or" -> (IF truthy THEN a ELSE b)
              [] f = "not" -> Bool(~truthy)
              [] f \in {"eq", "neq"} -> Bool(StrictEquals(a, b, FALSE) = (f = "eq"))
              [] f \in {"gt", "lt", "gte", "lte"} ->
                    Bool(Relational(CASE f = "gt" -> ">" [] f = "lt" -> "<"
                                      [] f = "gte" -> ">=" [] OTHER -> "<=", a, b))
              [] f = "if" -> (IF truthy THEN b ELSE c)
              [] OTHER -> Undefined
    IN Apply(Arg(args, 1), Arg(args, 2), Arg(args, 3), Truthy(Arg(args, 1)))

\* x o y for o in + - * /, both operands converted to numbers
Arith(o, x, y) ==
    LET Numbers(a, b) ==
            CASE o = "+" -> NumAdd(a, b)
              [] o = "-" -> NumAdd(a, NumNeg(b))
              [] o = "*" -> NumMul(a, b)
              [] OTHER -> NumDiv(a, b)
    IN Numbers(ToNumber(x), ToNumber(y))

\* the names both engines know as constants
ConstantValue(s) ==
    CASE s = "true" -> Bool(TRUE)
      [] s = "false" -> Bool(FALSE)
      [] s = "Infinity" -> [t |-> "num", n |-> 1, d |-> 0]
      [] OTHER -> NaN

\* Evaluation of a parsed expression.  dialect "mathjs": a symbol is a
\* constant, a function of mathScope, or undefined (an error); arithmetic
\* takes numbers and booleans.  Of the functions math.evaluate finds in the
\* mathjs namespace when the scope has none of that name, random() with no
\* argument is modelled: it gives the generator's next number.  dialect "js": any other identifier is a
\* ReferenceError.
RECURSIVE Evaluate(_, _)
RECURSIVE EvaluateArgs(_, _, _, _)

Evaluate(dialect, node) ==
    CASE node.k = "num" -> Ret(node.v)
      [] node.k = "sym" ->
            (IF node.s \in NamedConstants THEN Ret(ConstantValue(node.s))
             ELSE IF node.s \in DOMAIN assigned[dialect] THEN Ret(assigned[dialect][node.s])
             ELSE IF dialect = "mathjs" /\ node.s \in mathScope \cup {"random"}
                  THEN Ret([t |-> "fn", f |-> node.s])
             ELSE IF dialect = "mathjs"
                  THEN Throw(Error("Error", "Undefined symbol " \o node.s))
             ELSE Throw(Error("ReferenceError", node.s \o " is not defined")))
      [] node.k = "unary" ->
            (LET Signed(e) ==
                     IF Threw(e) THEN e
                     ELSE IF dialect = "mathjs" /\ e.value.t \notin {"num", "bool"}
                          THEN Throw(Error("TypeError", "Unexpected type of argument"))
                     ELSE Ret(Arith(IF node.o = "-" THEN "-" ELSE "+", N(0), e.value))
             IN Signed(Evaluate(dialect, node.e)))
      [] node.k = "bin" ->
            (LET Operands(l, r) ==
                     IF Threw(l) THEN l
                     ELSE IF Threw(r) THEN r
                     ELSE IF dialect = "mathjs"
                             /\ (l.value.t \notin {"num", "bool"}
                                 \/ r.value.t \notin {"num", "bool"})
                          THEN Throw(Error("TypeError", "Unexpected type of argument"))
                     ELSE Ret(Arith(node.o, l.value, r.value))
             IN Operands(Evaluate(dialect, node.l), Evaluate(dialect, node.r)))
      [] node.k = "comma" ->
            (LET First(l) == IF Threw(l) THEN l ELSE Evaluate(dialect, node.r)
             IN First(Evaluate(dialect, node.l)))
      [] node.k = "call" ->
            \* g: the function the name stands for ("": a value that is no function)
            (LET Call(g) ==
                     IF g \in NamedConstants \cup {""}
                     THEN Throw(Error("TypeError", node.f \o " is not a function"))
                     ELSE IF dialect = "mathjs" /\ g \in mathScope
                          THEN EvaluateArgs(dialect, [node EXCEPT !.f = g], 1, <<>>)
                     ELSE IF dialect = "mathjs" /\ g = "random" /\ node.args = <<>>
                          THEN Ret(nextRandom)
                     ELSE IF dialect = "mathjs"
                          THEN Throw(Error("Error", "Undefined function " \o node.f))
                     ELSE Throw(Error("ReferenceError", node.f \o " is not defined"))
             IN Call(IF node.f \notin DOMAIN assigned[dialect] THEN node.f
                     ELSE IF assigned[dialect][node.f].t = "fn" THEN assigned[dialect][node.f].f
                     ELSE ""))
      [] OTHER -> Throw(Error("SyntaxError", "Unexpected node"))

EvaluateArgs(dialect, call, i, values) ==
    IF i > Len(call.args) THEN Ret(ApplyMathScope(call.f, values))
    ELSE LET Argument(a) ==
                 IF Threw(a) THEN a
                 ELSE EvaluateArgs(dialect, call, i + 1, Append(values, a.value))
         IN Argument(Evaluate(dialect, call.args[i]))

\* The text parsed as a whole, then evaluated: what the engine returns or
\* throws (outcome) and what is assigned afterwards (assigned).  An
\* assignment whose right side has a value writes it under the name.
EvaluateText(dialect, expression) ==
    LET Only(result) == [outcome |-> result, assigned |-> assigned]
        Run(node, result) ==
            [outcome |-> result,
             assigned |-> IF node.k # "assign" \/ Threw(result) THEN assigned
                          ELSE [assigned EXCEPT ![dialect] =
                                    [n \in DOMAIN @ \cup {node.s}
                                        |-> IF n = node.s THEN result.value ELSE @[n]]]]
        Program(p) ==
            IF ~p.ok THEN Only(Throw(Error("SyntaxError", "Unexpected token in expression")))
            ELSE IF p.empty THEN Only(Ret(Undefined))
            ELSE Run(p.node, Evaluate(dialect, IF p.node.k = "assign" THEN p.node.e ELSE p.node))
    IN Program(ParseExpression(dialect, expression))

(***************************************************************************)
(* RuleEvaluator                                                           *)
(***************************************************************************)
RuleEvaluator_evaluateExpression(expression) ==
    LET Caught(checked) ==
            IF Threw(checked)
            THEN Throw(Wrap("EvaluatorError", "Failed to evaluate expression", checked.error))
            ELSE checked
        Checked(result) ==
            Caught(IF Threw(result) THEN result
                   ELSE IF result.value.t # "num" \/ ~IsFinite(result.value)
                        THEN Throw(Error("Error", "Expression must evaluate to a finite number"))
                   ELSE result)
        Done(call) == [outcome |-> Checked(call.outcome), assigned |-> call.assigned]
    IN Done(EvaluateText("mathjs", expression))

RuleEvaluator_evaluateRule(r, ctx) ==
    LET Only(result) == [outcome |-> result, assigned |-> assigned]
        Caught(call) ==
            IF Threw(call.outcome)
            THEN [outcome |-> Throw(Wrap("EvaluatorError", "Failed to evaluate rule", call.outcome.error)),
                  assigned |-> call.assigned]
            ELSE call
        Calculate(expression) ==
            IF Threw(expression) THEN Only(expression)
            ELSE RuleEvaluator_evaluateExpression(expression.value)
        Gate(gate) ==
            Caught(IF Threw(gate) THEN Only(gate)
                   ELSE IF ~gate.value THEN Only(Ret(N(0)))
                   ELSE Calculate(RuleEvaluator_substituteVariables(r.calculation.expression, ctx)))
    IN Gate(RuleEvaluator_evaluateConditions(r.conditions, ctx))

(***************************************************************************)
(* IndentedTreeParser: evaluation                                          *)
(***************************************************************************)
IndentedTreeParser_evaluateExpression(expression) ==
    LET Caught(result) ==
            IF Threw(result)
            THEN Throw(Wrap("ParserError", "Failed to evaluate expression", result.error))
            ELSE result
        Done(call) == [outcome |-> Caught(call.outcome), assigned |-> call.assigned]
    IN Done(EvaluateText("js", expression))

IndentedTreeParser_evaluateRule(r, ctx) ==
    LET Only(result) == [outcome |-> result, assigned |-> assigned]
        Caught(call) ==
            IF Threw(call.outcome)
            THEN [outcome |-> Throw(Wrap("ParserError", "Failed to evaluate rule", call.outcome.error)),
                  assigned |-> call.assigned]
            ELSE call
        Calculate(expression) ==
            IF Threw(expression) THEN Only(expression)
            ELSE IndentedTreeParser_evaluateExpression(expression.value)
        Gate(gate) ==
            Caught(IF Threw(gate) THEN Only(gate)
                   ELSE IF ~gate.value THEN Only(Ret(N(0)))
                   ELSE Calculate(IndentedTreeParser_substituteVariables(r.calculation.expression, ctx)))
    IN Gate(IndentedTreeParser_evaluateConditions(r.conditions, ctx))

(***************************************************************************)
(* Evaluation: the inputs                                                  *)
(***************************************************************************)
Condition(field, operator, value) == [field |-> field, operator |-> operator, value |-> value]

\* the conditions rules are built from, by position
EvalConditions ==
    << Condition("sale_amount", ">", N(0)),
       Condition("product_type", "==", Str("premium")),
       Condition("product_category", "in", Arr(<<Str("electronics"), Str("furniture")>>)),
       Condition("product_category", "in", Str("not_an_array")),
       Condition("quarter", "in", Arr(<<N(1), Str("2"), NaN>>)),
       Condition("product_type", "==", Str("constructor")),
       Condition("sale_amount", ">=", Str("bonus")),
       Condition("sale_amount", "=>", N(0)) >>

\* the longest condition list of an evaluated rule
MaxConditions == 2

ConditionLists ==
    UNION { { [i \in 1..n |-> EvalConditions[pick[i]]] : pick \in [1..n -> 1..Len(EvalConditions)] }
            : n \in 0..MaxConditions }

Expressions ==
    { "sale_amount * 0.05",
      "sale_amount / 0",
      "round(sale_amount * 0.05) + min(sale_amount, 1000)",
      "sale_amount * bonus",
      "is_new_customer",
      "sale_amount * (1 + 1",
      "product_type",
      "" }

EvalRules ==
    { [name |-> "Basic", priority |-> N(1), conditions |-> cs,
       calculation |-> [expression |-> e], notes |-> Undefined]
      : cs \in ConditionLists, e \in Expressions }

Contexts ==
    { <<>>,
      [sale_amount |-> N(0)],
      [sale_amount |-> N(1000), product_type |-> Str("premium"), quarter |-> N(1)],
      [sale_amount |-> N(1000), product_type |-> Str("standard"),
       product_category |-> Str("electronics"), is_new_customer |-> Bool(TRUE),
       quarter |-> Str("1")],
      [sale_amount |-> N(15000), product_type |-> Str("premium"),
       product_category |-> Str("clothing"), bonus |-> N(20000), is_new_customer |-> Bool(FALSE),
       quarter |-> N(2)],
      [sale_amount |-> N(25000), product_type |-> Str("constructor"),
       product_category |-> Str("furniture"), bonus |-> N(4), quarter |-> NaN],
      [sale_amount |-> N(1000), product_type |-> Str("random()")],
      [sale_amount |-> N(1000), product_type |-> Str("abs = 5")] }

NoOutcome == [kind |-> "none"]

(***************************************************************************)
(* Evaluation: a rule and a context are given, and one of the two          *)
(* evaluateRule entry points is called on them, and then once more         *)
(***************************************************************************)
InitEval ==
    /\ pc = "start"
    /\ op = "none"
    /\ rule \in EvalRules
    /\ context \in Contexts
    /\ ruleText = ""
    /\ outcome = NoOutcome
    /\ nextRandom = Num(1, 4)
    /\ assigned = [mathjs |-> <<>>, js |-> <<>>]

CallRuleEvaluator ==
    /\ pc = "start"
    /\ pc' = "done"
    /\ op' = "RuleEvaluator.evaluateRule"
    /\ LET Done(call) == outcome' = call.outcome /\ assigned' = call.assigned
       IN Done(RuleEvaluator_evaluateRule(rule, context))
    /\ UNCHANGED <<rule, context, ruleText, nextRandom>>

CallParserEvaluate ==
    /\ pc = "start"
    /\ pc' = "done"
    /\ op' = "IndentedTreeParser.evaluateRule"
    /\ LET Done(call) == outcome' = call.outcome /\ assigned' = call.assigned
       IN Done(IndentedTreeParser_evaluateRule(rule, context))
    /\ UNCHANGED <<rule, context, ruleText, nextRandom>>

\* the numbers random() may give, each in [0, 1)
RandomNumbers == { Num(1, 4), Num(3, 4) }

\* between two calls the generator behind random() has moved on
Reseed ==
    /\ pc = "done"
    /\ pc' = "reseeded"
    /\ nextRandom' \in RandomNumbers \ {nextRandom}
    /\ UNCHANGED <<op, rule, context, ruleText, outcome, assigned>>

\* the same entry point is called once more, on the same rule and context
CallAgain ==
    /\ pc \in {"done", "reseeded"}
    /\ pc' = "again"
    /\ LET Done(call) == outcome' = call.outcome /\ assigned' = call.assigned
       IN Done(IF op = "RuleEvaluator.evaluateRule"
               THEN RuleEvaluator_evaluateRule(rule, context)
               ELSE IndentedTreeParser_evaluateRule(rule, context))
    /\ UNCHANGED <<op, rule, context, ruleText, nextRandom>>

NextEval == CallRuleEvaluator \/ CallParserEvaluate \/ Reseed \/ CallAgain

SpecEval == InitEval /\ [][NextEval]_vars

(***************************************************************************)
(* RuleValidator.  A check returns (void) or throws.  A ValidationError     *)
(* has a message and details.                                              *)
(***************************************************************************)
NoDetails == [none |-> TRUE]
ValidationError(message, details) ==
    [name |-> "ValidationError", message |-> message, details |-> details,
     originalError |-> NoError]
Void == Ret(Undefined)

\* the static members of the class
RuleValidator_validOperators == <<"==", "!=", ">", "<", ">=", "<=", "in">>
RuleValidator_validFields ==
    <<
        "sale_amount", "product_type", "product_category", "region",
        "monthly_sales", "is_new_customer", "total_monthly_sales",
        "team_size", "team_monthly_sales", "team_attendance_rate",
        "is_seasonal_promotion", "customer_loyalty_years", "payment_method",
        "primary_product_amount", "cross_sold_products", "cross_sold_amount",
        "account_type", "contract_value", "contract_duration",
        "payment_received_within_days", "referred_customer",
        "referred_sale_amount", "referral_source", "bundle_items",
        "bundle_value", "bundle_discount", "quarter", "quarterly_sales",
        "quarterly_target_achievement", "customer_tenure", "renewal_amount",
        "renewal_products", "is_emergency_order", "delivery_time",
        "order_value", "is_international_sale", "currency",
        "is_new_product_launch", "launch_period_days", "launch_sales",
        "customer_satisfaction_score", "repeat_purchase"
    >>

\* this.validFields and this.validOperators, read in a method through the
\* instance: a static member is a property of the class, not of its
\* instances, so both are undefined
This_validFields == Undefined
This_validOperators == Undefined

MaxNameLength == 100
MinPriority == 1
MaxPriority == 100
MaxConditionCount == 10
MaxArrayItems == 10
MaxNotesLength == 500

\* /^[a-zA-Z][a-zA-Z0-9_ ]*$/.test(name)
NamePattern(name) ==
    /\ Len(name) >= 1
    /\ Ch(name, 1) \in Letters
    /\ \A i \in 2..Len(name) : Ch(name, i) \in IdentPart \cup {" "}

RuleValidator_validateRuleName(name) ==
    IF name = ""
    THEN Throw(ValidationError("Rule name is required and must be a string", NoDetails))
    ELSE IF Len(name) > MaxNameLength
         THEN Throw(ValidationError("Rule name must be less than 100 characters", NoDetails))
    ELSE IF ~NamePattern(name)
         THEN Throw(ValidationError("Rule name must start with a letter and contain only letters, numbers, spaces, and underscores",
                                    NoDetails))
    ELSE Void

RuleValidator_validatePriority(priority) ==
    IF priority.t # "num" \/ ~IsInteger(priority)
    THEN Throw(ValidationError("Priority must be an integer", NoDetails))
    ELSE IF priority.n < MinPriority \/ priority.n > MaxPriority
         THEN Throw(ValidationError("Priority must be between 1 and 100", NoDetails))
    ELSE Void

RuleValidator_validateConditionValue(condition, index) ==
    IF condition.operator = "in"
    THEN (IF condition.value.t # "arr"
          THEN Throw(ValidationError("Operator 'in' requires an array value in condition "
                                     \o NatToString(index + 1), NoDetails))
          ELSE IF Len(condition.value.a) = 0
               THEN Throw(ValidationError("Array value cannot be empty in condition "
                                          \o NatToString(index + 1), NoDetails))
          ELSE IF Len(condition.value.a) > MaxArrayItems
               THEN Throw(ValidationError("Array value cannot have more than 10 items in condition "
                                          \o NatToString(index + 1), NoDetails))
          ELSE Void)
    ELSE IF condition.value.t = "undef"
         THEN Throw(ValidationError("Value is required in condition " \o NatToString(index + 1),
                                    NoDetails))
    ELSE Void

\* array.includes(x) on a list of strings
Member(list, x) == \E k \in 1..Len(list) : list[k] = x

\* (index is 0-based, as forEach passes it); calling includes on undefined
\* is a TypeError
RuleValidator_validateCondition(condition, index) ==
    IF This_validFields = Undefined
    THEN Throw(Error("TypeError", "Cannot read properties of undefined (reading 'includes')"))
    ELSE IF ~Member(This_validFields, condition.field)
         THEN Throw(ValidationError("Invalid field '" \o condition.field \o "' in condition "
                                    \o NatToString(index + 1),
                                    [validFields |-> This_validFields]))
    ELSE IF This_validOperators = Undefined
         THEN Throw(Error("TypeError", "Cannot read properties of undefined (reading 'includes')"))
    ELSE IF ~Member(This_validOperators, condition.operator)
         THEN Throw(ValidationError("Invalid operator '" \o condition.operator
                                    \o "' in condition " \o NatToString(index + 1),
                                    [validOperators |-> This_validOperators]))
    ELSE RuleValidator_validateConditionValue(condition, index)

\* conditions.forEach((condition, index) => this.validateCondition(condition, index)),
\* from the i-th condition on
RECURSIVE ForEachCondition(_, _)
ForEachCondition(conditions, i) ==
    LET Step(r) == IF Threw(r) THEN r ELSE ForEachCondition(conditions, i + 1)
    IN IF i > Len(conditions) THEN Void
       ELSE Step(RuleValidator_validateCondition(conditions[i], i - 1))

RuleValidator_validateConditions(conditions) ==
    IF Len(conditions) = 0
    THEN Throw(ValidationError("At least one condition is required", NoDetails))
    ELSE IF Len(conditions) > MaxConditionCount
         THEN Throw(ValidationError("Maximum of 10 conditions allowed per rule", NoDetails))
    ELSE ForEachCondition(conditions, 1)

\* /^[a-zA-Z0-9_+\-*/(). ]+$/.test(expression)
CalculationPattern(expression) ==
    /\ Len(expression) >= 1
    /\ \A i \in 1..Len(expression) :
           Ch(expression, i) \in IdentPart \cup {"+", "-", "*", "/", "(", ")", ".", " "}

\* the counter of the loop over the characters, after the first i of them
Parentheses(expression, i) ==
    Cardinality({j \in 1..i : Ch(expression, j) = "("})
        - Cardinality({j \in 1..i : Ch(expression, j) = ")"})

\* (a fault: only the final count of the parentheses is checked)
RuleValidator_validateCalculation_CountOnly(calculation) ==
    LET Trimmed(expression) ==
            IF expression = ""
            THEN Throw(ValidationError("Calculation expression cannot be empty", NoDetails))
            ELSE IF ~CalculationPattern(expression)
                 THEN Throw(ValidationError("Calculation expression contains invalid characters",
                                            [expression |-> expression]))
            ELSE IF Parentheses(expression, Len(expression)) # 0
                 THEN Throw(ValidationError("Unbalanced parentheses in calculation expression",
                                            [expression |-> expression]))
            ELSE Void
    IN Trimmed(Trim(calculation.expression))

RuleValidator_validateCalculation(calculation) ==
    LET Trimmed(expression) ==
            IF expression = ""
            THEN Throw(ValidationError("Calculation expression cannot be empty", NoDetails))
            ELSE IF ~CalculationPattern(expression)
                 THEN Throw(ValidationError("Calculation expression contains invalid characters",
                                            [expression |-> expression]))
            ELSE IF \/ \E i \in 1..Len(expression) : Parentheses(expression, i) < 0
                    \/ Parentheses(expression, Len(expression)) # 0
                 THEN Throw(ValidationError("Unbalanced parentheses in calculation expression",
                                            [expression |-> expression]))
            ELSE Void
    IN Trimmed(Trim(calculation.expression))

RuleValidator_validateNotes(notes) ==
    IF notes.t \notin {"undef", "str"}
    THEN Throw(ValidationError("Notes must be a string if provided", NoDetails))
    ELSE IF notes.t = "str" /\ Len(notes.s) > MaxNotesLength
         THEN Throw(ValidationError("Notes must be less than 500 characters", NoDetails))
    ELSE Void

\* the first of the checks that throws ends the call
RECURSIVE FirstThrow(_, _)
FirstThrow(checks, i) ==
    IF i > Len(checks) THEN Void
    ELSE IF Threw(checks[i]) THEN checks[i]
    ELSE FirstThrow(checks, i + 1)

RuleValidator_validateRule(r) ==
    FirstThrow(<< RuleValidator_validateRuleName(r.name),
                  RuleValidator_validatePriority(r.priority),
                  RuleValidator_validateConditions(r.conditions),
                  RuleValidator_validateCalculation(r.calculation),
                  RuleValidator_validateNotes(r.notes) >>, 1)

(***************************************************************************)
(* IndentedTreeParser: the grammar.  A parser takes the text and a         *)
(* position and yields Parsed(value, next position) or NoParse.  P.alt     *)
(* takes the first alternative that succeeds and does not come back to a   *)
(* later one.                                                              *)
(***************************************************************************)
\* the first position >= i whose character is in set (Len(s)+1 if none)
RECURSIVE SkipUntil(_, _, _)
SkipUntil(s, i, set) ==
    IF i <= Len(s) /\ Ch(s, i) \notin set THEN SkipUntil(s, i + 1, set) ELSE i

\* the literals, in order, the first of which the text has at i
RECURSIVE FirstLiteral(_, _, _, _)
FirstLiteral(s, i, literals, k) ==
    IF k > Len(literals) THEN NoParse
    ELSE IF StartsWithAt(s, i, literals[k]) THEN Parsed(literals[k], i + Len(literals[k]))
    ELSE FirstLiteral(s, i, literals, k + 1)

\* /\s*/: the position after the white space
P_whitespace(s, i) == SkipWhile(s, i, Space)

\* indent.many(): the position after the groups of four spaces
RECURSIVE P_indentMany(_, _)
P_indentMany(s, i) == IF StartsWithAt(s, i, "    ") THEN P_indentMany(s, i + 4) ELSE i

\* "(" then /\d+/ mapped by Number then ")"
P_priority(s, i) ==
    LET Number(j) ==
            IF j > i + 1 /\ Ch(s, j) = ")"
            THEN Parsed(N(DigitsToNat(s, i + 1, j, 0)), j + 1)
            ELSE NoParse
    IN IF Ch(s, i) = "(" THEN Number(SkipWhile(s, i + 1, Digits)) ELSE NoParse

\* /[a-zA-Z_][a-zA-Z0-9_]*/
P_identifier(s, i) ==
    LET Word(j) == Parsed(SubSeq(s, i, j - 1), j)
    IN IF Ch(s, i) \in IdentStart THEN Word(SkipWhile(s, i, IdentPart)) ELSE NoParse

\* /-?(0|[1-9][0-9]*)([.][0-9]+)?/ mapped by Number
P_number(s, i) ==
    LET Literal(j) == Parsed(StringToNumber(SubSeq(s, i, j - 1)), j)
        Fraction(j) ==
            Literal(IF Ch(s, j) = "." /\ Ch(s, j + 1) \in Digits
                    THEN SkipWhile(s, j + 1, Digits)
                    ELSE j)
        Integer(j) ==
            IF Ch(s, j) = "0" THEN Fraction(j + 1)
            ELSE IF Ch(s, j) \in Digits THEN Fraction(SkipWhile(s, j, Digits))
            ELSE NoParse
    IN Integer(IF Ch(s, i) = "-" THEN i + 1 ELSE i)

\* /"([^"]*)"/, group 1
P_string(s, i) ==
    LET Quoted(j) == IF j <= Len(s) THEN Parsed(Str(SubSeq(s, i + 1, j - 1)), j + 1) ELSE NoParse
    IN IF Ch(s, i) = "\"" THEN Quoted(SkipUntil(s, i + 1, {"\""})) ELSE NoParse

\* P.alt(P.string('true').result(true), P.string('false').result(false))
P_boolean(s, i) ==
    LET Word(w) == IF w.ok THEN Parsed(Bool(w.node = "true"), w.pos) ELSE NoParse
    IN Word(FirstLiteral(s, i, <<"true", "false">>, 1))

P_operator(s, i) == FirstLiteral(s, i, <<"==", "!=", ">=", "<=", ">", "<", "in">>, 1)

\* P.alt(number, string, boolean, identifier)
P_value(s, i) ==
    LET Alt(number, string, boolean, identifier) ==
            IF number.ok THEN number
            ELSE IF string.ok THEN string
            ELSE IF boolean.ok THEN boolean
            ELSE IF identifier.ok THEN Parsed(Str(identifier.node), identifier.pos)
            ELSE NoParse
    IN Alt(P_number(s, i), P_string(s, i), P_boolean(s, i), P_identifier(s, i))

\* P.seq(identifier.skip(whitespace), operator.skip(whitespace), value)
P_condition(s, i) ==
    LET Value(field, operator, value) ==
            IF value.ok
            THEN Parsed([field |-> field.node, operator |-> operator.node, value |-> value.node],
                        value.pos)
            ELSE NoParse
        Operator(field, operator) ==
            IF operator.ok THEN Value(field, operator, P_value(s, P_whitespace(s, operator.pos)))
            ELSE NoParse
        Field(field) ==
            IF field.ok THEN Operator(field, P_operator(s, P_whitespace(s, field.pos)))
            ELSE NoParse
    IN Field(P_identifier(s, i))

\* /.*/ mapped to {expression: expr.trim()}: to the end of the line
P_calculation(s, i) ==
    LET Rest(j) == Parsed([expression |-> Trim(SubSeq(s, i, j - 1))], j)
    IN Rest(SkipUntil(s, i, {"\n", "\r"}))

\* /.*/ mapped to note.trim()
P_note(s, i) ==
    LET Rest(j) == Parsed(Trim(SubSeq(s, i, j - 1)), j)
    IN Rest(SkipUntil(s, i, {"\n", "\r"}))

\* P.seq(identifier.skip(whitespace), priority)
P_ruleHeader(s, i) ==
    LET Priority(name, priority) ==
            IF priority.ok
            THEN Parsed([name |-> name.node, priority |-> priority.node], priority.pos)
            ELSE NoParse
        Name(name) ==
            IF name.ok THEN Priority(name, P_priority(s, P_whitespace(s, name.pos))) ELSE NoParse
    IN Name(P_identifier(s, i))

\* P.alt(P.string('When').result('when'), ...)
P_section(s, i) ==
    LET Word(w) ==
            IF w.ok
            THEN Parsed(CASE w.node = "When" -> "when" [] w.node = "Then" -> "then"
                          [] OTHER -> "notes", w.pos)
            ELSE NoParse
    IN Word(FirstLiteral(s, i, <<"When", "Then", "Notes">>, 1))

\* P.seq(indent.many(), P.alt(ruleHeader, section, condition, calculation, note)),
\* the second component, tagged with its type
P_line(s, i) ==
    LET Alt(j, header, section, condition, calculation, note) ==
            IF header.ok
            THEN Parsed([type |-> "rule", name |-> header.node.name,
                         priority |-> header.node.priority], header.pos)
            ELSE IF section.ok THEN Parsed([type |-> section.node], section.pos)
            ELSE IF condition.ok
                 THEN Parsed([type |-> "condition", field |-> condition.node.field,
                              operator |-> condition.node.operator,
                              value |-> condition.node.value], condition.pos)
            ELSE IF calculation.ok
                 THEN Parsed([type |-> "calculation", expression |-> calculation.node.expression],
                             calculation.pos)
            ELSE IF note.ok THEN Parsed([type |-> "note", note |-> note.node], note.pos)
            ELSE NoParse
        Indented(j) ==
            Alt(j, P_ruleHeader(s, j), P_section(s, j), P_condition(s, j),
                P_calculation(s, j), P_note(s, j))
    IN Indented(P_indentMany(s, i))

\* line.sepBy(newline), the lines so far in acc: Parsed(the lines, the position
\* after the last of them)
RECURSIVE P_parser(_, _, _)
P_parser(s, i, acc) ==
    LET Line(l) ==
            IF ~l.ok THEN Parsed(acc, IF Len(acc) = 0 THEN i ELSE i - 1)
            ELSE IF Ch(s, l.pos) = "\n" THEN P_parser(s, l.pos + 1, Append(acc, l.node))
            ELSE Parsed(Append(acc, l.node), l.pos)
    IN Line(P_line(s, i))

(***************************************************************************)
(* IndentedTreeParser.parseRule                                            *)
(***************************************************************************)
Null == [t |-> "null"]

\* the locals of parseRule before the loop over the lines
BeforeLines ==
    [currentRule |-> [name |-> Undefined, priority |-> Undefined],
     currentSection |-> Null,
     conditions |-> <<>>,
     calculation |-> Null,
     notes |-> <<>>]

\* (a fault: a condition line is accepted whatever the section)
AssembleLine_Ungated(st, line) ==
    CASE line.type = "rule" ->
            [st EXCEPT !.currentRule = [name |-> Str(line.name), priority |-> line.priority]]
      [] line.type \in {"when", "then", "notes"} ->
            [st EXCEPT !.currentSection = Str(line.type)]
      [] line.type = "condition" -> [st EXCEPT !.conditions = Append(@, line)]
      [] line.type = "calculation" ->
            (IF st.currentSection = Str("then") THEN [st EXCEPT !.calculation = line] ELSE st)
      [] OTHER -> st

\* the switch on line.type
AssembleLine(st, line) ==
    CASE line.type = "rule" ->
            [st EXCEPT !.currentRule = [name |-> Str(line.name), priority |-> line.priority]]
      [] line.type \in {"when", "then", "notes"} ->
            [st EXCEPT !.currentSection = Str(line.type)]
      [] line.type = "condition" ->
            (IF st.currentSection = Str("when")
             THEN [st EXCEPT !.conditions = Append(@, line)]
             ELSE st)
      [] line.type = "calculation" ->
            (IF st.currentSection = Str("then") THEN [st EXCEPT !.calculation = line] ELSE st)
      [] line.type = "note" ->
            (IF st.currentSection = Str("notes")
             THEN [st EXCEPT !.notes = Append(@, line.note)]
             ELSE st)
      [] OTHER -> st

\* the loop over the lines, from the k-th on
RECURSIVE Assemble(_, _, _)
Assemble(lines, k, st) ==
    IF k > Len(lines) THEN st ELSE Assemble(lines, k + 1, AssembleLine(st, lines[k]))

\* s.split(sep), the pieces of s from position from on
RECURSIVE Split(_, _, _)
Split(s, sep, from) ==
    LET Cut(i) == <<SubSeq(s, from, i - 1)>> \o Split(s, sep, i + Len(sep))
        First(at) ==
            IF at = {} THEN <<SubSeq(s, from, Len(s))>>
            ELSE Cut(CHOOSE i \in at : \A j \in at : i <= j)
    IN First({i \in from..Len(s) : StartsWithAt(s, i, sep)})

\* notes.join('\n')
RECURSIVE Join(_, _)
Join(texts, sep) ==
    IF Len(texts) = 0 THEN ""
    ELSE IF Len(texts) = 1 THEN texts[1]
    ELSE texts[1] \o sep \o Join(Tail(texts), sep)

\* the rule built from the locals after the loop
RuleOf(st) ==
    [name |-> st.currentRule.name.s,
     priority |-> st.currentRule.priority,
     conditions |-> st.conditions,
     calculation |-> st.calculation,
     notes |-> IF Len(st.notes) > 0 THEN Str(Join(st.notes, "\n")) ELSE Undefined]

\* (a fault: an error of the validator is wrapped like any other)
IndentedTreeParser_parseRule_Wrapping(text) ==
    LET Caught(r) ==
            IF Threw(r)
            THEN Throw(Wrap("ParserError", "Failed to parse rule", r.error))
            ELSE r
        Validated(r, verdict) == IF Threw(verdict) THEN verdict ELSE Ret(r)
        Built(r) == Validated(r, RuleValidator_validateRule(r))
        Assembled(st) ==
            IF \/ ~Truthy(st.currentRule.name)
               \/ ~Truthy(st.currentRule.priority)
               \/ st.calculation = Null
            THEN Throw(Error("ParserError", "Invalid rule structure: missing required sections"))
            ELSE Built(RuleOf(st))
        Lines(lines) ==
            IF lines.pos # Len(text) + 1
            THEN Throw(Error("ParserError", "Failed to parse rule: expected"))
            ELSE Assembled(Assemble(lines.node, 1, BeforeLines))
    IN Caught(Lines(P_parser(text, 1, <<>>)))

\* parser.parse(ruleText) succeeds when the lines end where the text ends.
\* (The message of the failure lists what the grammar expected; the list is
\* not modelled.)
IndentedTreeParser_parseRule(text) ==
    LET Caught(r) ==
            IF Threw(r) /\ r.error.name # "ValidationError"
            THEN Throw(Wrap("ParserError", "Failed to parse rule", r.error))
            ELSE r
        Validated(r, verdict) == IF Threw(verdict) THEN verdict ELSE Ret(r)
        Built(r) == Validated(r, RuleValidator_validateRule(r))
        Assembled(st) ==
            IF \/ ~Truthy(st.currentRule.name)
               \/ ~Truthy(st.currentRule.priority)
               \/ st.calculation = Null
            THEN Throw(Error("ParserError", "Invalid rule structure: missing required sections"))
            ELSE Built(RuleOf(st))
        Lines(lines) ==
            IF lines.pos # Len(text) + 1
            THEN Throw(Error("ParserError", "Failed to parse rule: expected"))
            ELSE Assembled(Assemble(lines.node, 1, BeforeLines))
    IN Caught(Lines(P_parser(text, 1, <<>>)))

\* rulesText.split('\n\n').filter(block => block.trim())
Blocks(text) == SelectSeq(Split(text, "\n\n", 1), LAMBDA block : Trim(block) # "")

\* (a fault: a block that fails is left out of the list)
IndentedTreeParser_parseRules_Partial(text) ==
    LET Kept(results) == SelectSeq(results, LAMBDA r : Returned(r))
        Values(kept) == Ret([k \in 1..Len(kept) |-> kept[k].value])
    IN Values(Kept([k \in 1..Len(Blocks(text)) |-> IndentedTreeParser_parseRule(Blocks(text)[k])]))

\* .map(block => this.parseRule(block)): the first block that throws ends
\* the call; an error of another class than ValidationError and ParserError
\* is wrapped
IndentedTreeParser_parseRules(text) ==
    LET Caught(r) ==
            IF Threw(r) /\ r.error.name \notin {"ValidationError", "ParserError"}
            THEN Throw(Wrap("ParserError", "Failed to parse rules", r.error))
            ELSE r
        Mapped(results, thrown) ==
            IF Threw(thrown) THEN thrown
            ELSE Ret([k \in 1..Len(results) |-> results[k].value])
        Map(results) == Mapped(results, FirstThrow(results, 1))
        Filtered(blocks) ==
            Map([k \in 1..Len(blocks) |-> IndentedTreeParser_parseRule(blocks[k])])
    IN Caught(Filtered(Blocks(text)))

(***************************************************************************)
(* Validation: a rule is given, and validateRule is called on it, twice    *)
(***************************************************************************)
\* a list of n conditions, each sale_amount > 0
Conditions(n) == [i \in 1..n |-> Condition("sale_amount", ">", N(0))]

ValidateConditionLists ==
    { <<>>,
      Conditions(1),
      Conditions(MaxConditionCount),
      Conditions(MaxConditionCount + 1),
      << Condition("invalid_field", ">", N(0)) >>,
      << Condition("sale_amount", ">", N(0)), Condition("invalid_field", "=>", N(0)) >>,
      << Condition("sale_amount", "=>", N(0)) >>,
      << Condition("product_category", "in", Str("electronics")) >>,
      << Condition("product_category", "in", Arr(<<>>)) >>,
      << Condition("product_type", "==", Undefined) >> }

ValidateRules ==
    { [name |-> n, priority |-> p, conditions |-> cs,
       calculation |-> [expression |-> e], notes |-> ns]
      : n \in { "Basic", "Basic Sales Commission", "123Invalid Rule", "", "_basic",
                 Repeat("a", MaxNameLength), Repeat("a", MaxNameLength + 1) },
        p \in { N(1), N(100), N(0), N(101), N(-1), Num(3, 2), NaN },
        cs \in ValidateConditionLists,
        e \in { "sale_amount * 0.05", "", "   ", "sale_amount * @invalid",
                 "sale_amount * (1 + 0.05", "sale_amount) * (2", "round(sale_amount * 0.05)" },
        ns \in { Undefined, Str("Standard 5% commission on all sales"), Str(""),
                  Str(Repeat("n", MaxNotesLength)), Str(Repeat("n", MaxNotesLength + 1)),
                  N(5) } }

InitValidate ==
    /\ pc = "start"
    /\ op = "none"
    /\ rule \in ValidateRules
    /\ context = <<>>
    /\ ruleText = ""
    /\ outcome = NoOutcome
    /\ nextRandom = Num(1, 4)
    /\ assigned = [mathjs |-> <<>>, js |-> <<>>]

\* (a fault: the expression of the rule is trimmed in place)
CallValidateRule_InPlace ==
    /\ pc = "start"
    /\ pc' = "done"
    /\ op' = "RuleValidator.validateRule"
    /\ outcome' = RuleValidator_validateRule(rule)
    /\ rule' = [rule EXCEPT !.calculation.expression = Trim(@)]
    /\ UNCHANGED <<context, ruleText, nextRandom, assigned>>

CallValidateRule ==
    /\ pc = "start"
    /\ pc' = "done"
    /\ op' = "RuleValidator.validateRule"
    /\ outcome' = RuleValidator_validateRule(rule)
    /\ UNCHANGED <<rule, context, ruleText, nextRandom, assigned>>

\* validateRule is called once more on the same rule
CallValidateAgain ==
    /\ pc = "done"
    /\ pc' = "again"
    /\ outcome' = RuleValidator_validateRule(rule)
    /\ UNCHANGED <<op, rule, context, ruleText, nextRandom, assigned>>

NextValidate == CallValidateRule \/ CallValidateAgain

SpecValidate == InitValidate /\ [][NextValidate]_vars

(***************************************************************************)
(* The calculation check alone: validateCalculation is called on a         *)
(* calculation whose expression is any text of up to MaxExpressionLength   *)
(* characters over a small alphabet                                        *)
(***************************************************************************)
MaxExpressionLength == 3

InitCalculation ==
    /\ pc = "start"
    /\ op = "none"
    /\ \E n \in 0..MaxExpressionLength :
         \E cs \in [1..n -> {"a", "+", "(", ")", " ", "@"}] :
            rule = [name |-> "Basic", priority |-> N(1),
                    conditions |-> << Condition("sale_amount", ">", N(0)) >>,
                    calculation |-> [expression |-> Join(cs, "")], notes |-> Undefined]
    /\ context = <<>>
    /\ ruleText = ""
    /\ outcome = NoOutcome
    /\ nextRandom = Num(1, 4)
    /\ assigned = [mathjs |-> <<>>, js |-> <<>>]

CallValidateCalculation ==
    /\ pc = "start"
    /\ pc' = "done"
    /\ op' = "RuleValidator.validateCalculation"
    /\ outcome' = RuleValidator_validateCalculation(rule.calculation)
    /\ UNCHANGED <<rule, context, ruleText, nextRandom, assigned>>

NextCalculation == CallValidateCalculation

SpecCalculation == InitCalculation /\ [][NextCalculation]_vars

(***************************************************************************)
(* Parsing: a rule text is given, and parseRule is called on it.  A text   *)
(* is a header line and the When, Then and Notes sections, each of which   *)
(* may be missing, between an optional first and last line break (as the   *)
(* template literals of the tests have them).                              *)
(***************************************************************************)
RuleTexts ==
    { breaks \o Join(SelectSeq(<<header, when, then, notes>>, LAMBDA part : part # ""), "\n")
             \o breaks
      : header \in { "", "Basic (1)", "Basic (100)", "Basic (0)", "Basic (101)", "_basic (5)",
                      "Basic Sales Commission (1)" },
        when \in { "",
                    "    When",
                    "    When\n        sale_amount > 0",
                    "    When\n        product_type == premium\n        sale_amount >= 10000",
                    "    When\n        product_type = premium\n        sale_amount >= 10000",
                    "    When\n        invalid_field > 0",
                    "    When\n        product_category in [electronics, furniture]",
                    "    When\n        sale_amount > 0 units" },
        then \in { "",
                    "    Then",
                    "    Then\n        sale_amount * 0.05",
                    "    Then\n        sale_amount * @invalid",
                    "    Then\n        sale_amount > 0\n        sale_amount * 0.05" },
        notes \in { "",
                     "    Notes\n        Standard 5% commission on all sales",
                     "    Notes\n        Additional 2% for premium products\n        Reviewed yearly" },
        breaks \in {"", "\n"} }

\* Texts of several blocks for parseRules: up to MaxBlocks blocks, blank ones
\* among them, with a blank line between them
RuleBlocks ==
    << "Basic (1)\n    When\n        sale_amount > 0\n    Then\n        sale_amount * 0.05",
       "Bonus (101)\n    Then\n        sale_amount * 0.02",
       "Bonus (2)\n    Then\n        sale_amount * 0.02",
       "    ",
       "" >>

MaxBlocks == 3

RulesTexts ==
    UNION { { Join([k \in 1..n |-> RuleBlocks[pick[k]]], "\n\n")
              : pick \in [1..n -> 1..Len(RuleBlocks)] }
            : n \in 0..MaxBlocks }

InitParse ==
    /\ pc = "start"
    /\ op = "none"
    /\ rule = Null
    /\ context = <<>>
    /\ ruleText \in RuleTexts \cup RulesTexts
    /\ outcome = NoOutcome
    /\ nextRandom = Num(1, 4)
    /\ assigned = [mathjs |-> <<>>, js |-> <<>>]

CallParseRule ==
    /\ pc = "start"
    /\ pc' = "done"
    /\ op' = "IndentedTreeParser.parseRule"
    /\ outcome' = IndentedTreeParser_parseRule(ruleText)
    /\ UNCHANGED <<rule, context, ruleText, nextRandom, assigned>>

(***************************************************************************)
(* The loop of parseRule over the lines of a text the grammar accepts, one  *)
(* line at a time: rule holds the lines still to read, outcome the locals  *)
(* of parseRule.                                                           *)
(***************************************************************************)
InitAssemble ==
    /\ pc = "loop"
    /\ op = "IndentedTreeParser.parseRule"
    /\ ruleText \in RuleTexts
    /\ P_parser(ruleText, 1, <<>>).pos = Len(ruleText) + 1
    /\ rule = P_parser(ruleText, 1, <<>>).node
    /\ context = <<>>
    /\ outcome = BeforeLines
    /\ nextRandom = Num(1, 4)
    /\ assigned = [mathjs |-> <<>>, js |-> <<>>]

ReadLine ==
    /\ pc = "loop"
    /\ rule # <<>>
    /\ outcome' = AssembleLine(outcome, Head(rule))
    /\ rule' = Tail(rule)
    /\ UNCHANGED <<pc, op, context, ruleText, nextRandom, assigned>>

NextAssemble == ReadLine

SpecAssemble == InitAssemble /\ [][NextAssemble]_vars

CallParseRules ==
    /\ pc = "start"
    /\ pc' = "done"
    /\ op' = "IndentedTreeParser.parseRules"
    /\ outcome' = IndentedTreeParser_parseRules(ruleText)
    /\ UNCHANGED <<rule, context, ruleText, nextRandom, assigned>>

NextParse == CallParseRule \/ CallParseRules

SpecParse == InitParse /\ [][NextParse]_vars

(***************************************************************************)
(* Properties of evaluation (under SpecEval)                               *)
(***************************************************************************)
Evaluated == pc = "done" /\ op \in {"RuleEvaluator.evaluateRule", "IndentedTreeParser.evaluateRule"}

\* the error class of the entry point that was called
ErrorClassOf(o) == IF o = "RuleEvaluator.evaluateRule" THEN "EvaluatorError" ELSE "ParserError"

\* the i-th condition of the rule, evaluated on its own
ConditionAlone(i) == EvaluateConditionAs(ErrorClassOf(op), rule.conditions[i], context)
ConditionIsFalse(i) == Returned(ConditionAlone(i)) /\ ~ConditionAlone(i).value
ConditionIsTrue(i) == Returned(ConditionAlone(i)) /\ ConditionAlone(i).value
ConditionFails(i) == Threw(ConditionAlone(i))
\* (absent: context[field] is undefined)
FieldAbsent(i) == Lookup(context, rule.conditions[i].field) = Undefined
AllFieldsPresent == \A i \in 1..Len(rule.conditions) : ~FieldAbsent(i)
AllConditionsHold == \A i \in 1..Len(rule.conditions) : ConditionIsTrue(i)

\* the calculation would fail if it were evaluated
CalculationFails ==
    LET Calculated(e) == Threw(e) \/ Threw(RuleEvaluator_evaluateExpression(e.value).outcome)
    IN Calculated(RuleEvaluator_substituteVariables(rule.calculation.expression, context))

\* the identifier tokens of a text, in order
Identifiers(text) == SelectSeq(Tokenize(text, 1, <<>>), LAMBDA tok : tok.k = "id")
Unbound(text) == SelectSeq(Identifiers(text), LAMBDA tok : tok.s \notin DOMAIN context)

\* the call failed with the entry point's error class, caused by an error with this message
FailedWith(message) ==
    /\ Threw(outcome)
    /\ outcome.error.name = ErrorClassOf(op)
    /\ outcome.error.message = "Failed to evaluate rule"
    /\ outcome.error.originalError.name = ErrorClassOf(op)
    /\ outcome.error.originalError.message = message

\* C1 as stated: when every condition's field is present and some condition
\* is false, evaluateRule returns exactly 0.
C1_GateAsStated ==
    (Evaluated /\ AllFieldsPresent /\ \E i \in 1..Len(rule.conditions) : ConditionIsFalse(i))
        => outcome = Ret(N(0))

\* C1: when every condition's field is present, some condition is false and
\* no condition before it fails (an unknown operator, "in" with a value that
\* is no array), evaluateRule returns exactly 0, whatever the calculation.
C1_Gate ==
    (Evaluated /\ AllFieldsPresent
       /\ \E i \in 1..Len(rule.conditions) :
              ConditionIsFalse(i) /\ \A j \in 1..(i - 1) : ~ConditionFails(j))
        => outcome = Ret(N(0))

\* a rule of two conditions, the second one false, with a calculation that
\* would fail, has returned 0
C1_Witness ==
    /\ Evaluated /\ AllFieldsPresent
    /\ Len(rule.conditions) = 2
    /\ ConditionIsTrue(1) /\ ConditionIsFalse(2)
    /\ CalculationFails
    /\ outcome = Ret(N(0))

\* C2 as stated: when any condition, at any position, names a field absent
\* from the context, evaluateRule fails and returns no number.
C2_NeverDefaultAsStated ==
    (Evaluated /\ \E i \in 1..Len(rule.conditions) : FieldAbsent(i)) => Threw(outcome)

\* C2: when a condition names a field absent from the context and every
\* condition before it is true, evaluateRule fails with the missing-field
\* error of that condition.
C2_NeverDefault ==
    Evaluated =>
        \A i \in 1..Len(rule.conditions) :
            (FieldAbsent(i) /\ \A j \in 1..(i - 1) : ConditionIsTrue(j))
                => FailedWith("Missing required field '" \o rule.conditions[i].field
                              \o "' in context")

\* the second condition's field is absent, the first condition is true, and the call failed
C2_Witness ==
    /\ Evaluated
    /\ Len(rule.conditions) = 2
    /\ ConditionIsTrue(1) /\ FieldAbsent(2)
    /\ Threw(outcome)

\* C3: when all conditions hold and the calculation calls built-in functions
\* on variables the context binds, evaluateRule does not fail and returns a
\* number.
C3_BuiltinFunctions ==
    (Evaluated /\ op = "RuleEvaluator.evaluateRule" /\ AllConditionsHold
       /\ (\E k \in 1..Len(Identifiers(rule.calculation.expression)) :
               Identifiers(rule.calculation.expression)[k].s \in mathScope)
       /\ (\A n \in 1..Len(Unbound(rule.calculation.expression)) :
               Unbound(rule.calculation.expression)[n].s \in mathScope))
        => (Returned(outcome) /\ outcome.value.t = "num")

\* C4: when all conditions hold and the calculation has an identifier that
\* is neither a key of the context nor a built-in function's name,
\* evaluateRule fails: with the missing-variable error of the first
\* identifier the context does not bind.
C4_MissingVariable ==
    (Evaluated /\ AllConditionsHold
       /\ \E k \in 1..Len(Unbound(rule.calculation.expression)) :
              Unbound(rule.calculation.expression)[k].s \notin mathScope)
        => FailedWith("Missing required variable '"
                      \o Unbound(rule.calculation.expression)[1].s \o "' in context")

\* all conditions of a rule with at least one hold, the calculation names
\* bonus, which the context does not bind, and the call failed
C4_Witness ==
    /\ Evaluated /\ AllConditionsHold
    /\ Len(rule.conditions) > 0
    /\ rule.calculation.expression = "sale_amount * bonus"
    /\ "sale_amount" \in DOMAIN context /\ "bonus" \notin DOMAIN context
    /\ Threw(outcome)

\* C5: every value an evaluateRule entry point returns is a finite number.
C5_FiniteResult ==
    (Evaluated /\ Returned(outcome)) => (outcome.value.t = "num" /\ IsFinite(outcome.value))

(***************************************************************************)
(* Properties of validation (under SpecValidate)                           *)
(***************************************************************************)
Validated == pc = "done" /\ op = "RuleValidator.validateRule"

\* the check of one condition against the tables of the class: the field,
\* then the operator, then the value (index is 0-based, the message 1-based)
StatedConditionCheck(condition, index) ==
    IF ~Member(RuleValidator_validFields, condition.field)
    THEN Throw(ValidationError("Invalid field '" \o condition.field \o "' in condition "
                               \o NatToString(index + 1),
                               [validFields |-> RuleValidator_validFields]))
    ELSE IF ~Member(RuleValidator_validOperators, condition.operator)
         THEN Throw(ValidationError("Invalid operator '" \o condition.operator
                                    \o "' in condition " \o NatToString(index + 1),
                                    [validOperators |-> RuleValidator_validOperators]))
    ELSE RuleValidator_validateConditionValue(condition, index)

\* the check of the list: its length, then its conditions in list order
StatedConditionsCheck(conditions) ==
    IF Len(conditions) = 0 \/ Len(conditions) > MaxConditionCount
    THEN RuleValidator_validateConditions(conditions)
    ELSE FirstThrow([i \in 1..Len(conditions) |-> StatedConditionCheck(conditions[i], i - 1)], 1)

\* the call failed where a condition's field is looked up
FailedInFieldCheck(o) ==
    /\ Threw(o)
    /\ \/ o.error.name = "TypeError"
       \/ o.error.name = "ValidationError" /\ "validFields" \in DOMAIN o.error.details

NameAndPriorityValid ==
    /\ Returned(RuleValidator_validateRuleName(rule.name))
    /\ Returned(RuleValidator_validatePriority(rule.priority))

\* C6: validateRule reports the first failing check, and only that one, in
\* the order name, priority, conditions (each condition in list order: its
\* field, its operator, its value, with a 1-based index in the message),
\* calculation, notes.
C6_ValidationOrder ==
    Validated =>
        outcome = FirstThrow(<< RuleValidator_validateRuleName(rule.name),
                                RuleValidator_validatePriority(rule.priority),
                                StatedConditionsCheck(rule.conditions),
                                RuleValidator_validateCalculation(rule.calculation),
                                RuleValidator_validateNotes(rule.notes) >>, 1)

\* C9: validating a rule with a valid name and priority whose first
\* offending condition has an unrecognised field fails with a
\* ValidationError that names the field and carries the list of valid
\* fields; a rule whose condition fields are all recognised passes the
\* field check.
C9_UnknownField ==
    (/\ Validated
     /\ NameAndPriorityValid
     /\ Len(rule.conditions) \in 1..MaxConditionCount)
    =>
    /\ \A k \in 1..Len(rule.conditions) :
          (/\ \A j \in 1..(k - 1) : Returned(StatedConditionCheck(rule.conditions[j], j - 1))
           /\ ~Member(RuleValidator_validFields, rule.conditions[k].field))
          => outcome = StatedConditionCheck(rule.conditions[k], k - 1)
    /\ (\A k \in 1..Len(rule.conditions) :
            Member(RuleValidator_validFields, rule.conditions[k].field))
       => ~FailedInFieldCheck(outcome)

(***************************************************************************)
(* Properties of parsing (under SpecParse)                                 *)
(***************************************************************************)
ParseCalled == pc = "done" /\ op = "IndentedTreeParser.parseRule"

\* the grammar read the whole text as lines
WholeTextRead == P_parser(ruleText, 1, <<>>).pos = Len(ruleText) + 1

\* the locals of parseRule after the loop over the lines of the text
Locals == Assemble(P_parser(ruleText, 1, <<>>).node, 1, BeforeLines)
HeaderSeen == Locals.currentRule.name # Undefined
CalculationCaptured == Locals.calculation # Null

ParseFailedWith(errorName) == Threw(outcome) /\ outcome.error.name = errorName

\* everything in the block but the priority passes its check
ValidButForPriority ==
    /\ HeaderSeen
    /\ Returned(RuleValidator_validateRuleName(Locals.currentRule.name.s))
    /\ Returned(StatedConditionsCheck(Locals.conditions))
    /\ CalculationCaptured
    /\ Returned(RuleValidator_validateCalculation(Locals.calculation))
    /\ Returned(RuleValidator_validateNotes(RuleOf(Locals).notes))

\* C8: parsing a block that is valid but for its header's priority, an
\* integer outside 1..100 (0 as well as values above 100), fails with a
\* ValidationError, not with a ParserError.
C8_PriorityOutOfRange ==
    (/\ ParseCalled
     /\ WholeTextRead
     /\ ValidButForPriority
     /\ IsInteger(Locals.currentRule.priority)
     /\ Locals.currentRule.priority.n \notin MinPriority..MaxPriority)
    => ParseFailedWith("ValidationError")

\* C10: parsing a block with no rule header or no captured calculation
\* fails with a ParserError; parsing a block with a header and a
\* calculation but no accepted condition fails with a ValidationError.
C10_StructuralVersusDomain ==
    (ParseCalled /\ WholeTextRead)
    =>
    /\ (~HeaderSeen \/ ~CalculationCaptured) => ParseFailedWith("ParserError")
    /\ (HeaderSeen /\ CalculationCaptured /\ Len(Locals.conditions) = 0)
       => ParseFailedWith("ValidationError")

\* The text as its author reads it: the lines that are not blank, trimmed
TrimmedLines(text) ==
    SelectSeq([k \in 1..Len(Split(text, "\n", 1)) |-> Trim(Split(text, "\n", 1)[k])],
              LAMBDA l : l # "")

\* a header line: the name, of one or more words, and the priority in parentheses
StatedHeader(l) ==
    LET opens == {i \in 1..Len(l) : Ch(l, i) = "("}
        Read(o) ==
            IF /\ Ch(l, Len(l)) = ")"
               /\ o + 1 <= Len(l) - 1
               /\ \A i \in (o + 1)..(Len(l) - 1) : Ch(l, i) \in Digits
               /\ NamePattern(Trim(SubSeq(l, 1, o - 1)))
            THEN Parsed([name |-> Trim(SubSeq(l, 1, o - 1)),
                         priority |-> N(DigitsToNat(l, o + 1, Len(l), 0))], Len(l) + 1)
            ELSE NoParse
    IN IF opens = {} THEN NoParse ELSE Read(CHOOSE o \in opens : \A i \in opens : i <= o)

\* a value: a literal in brackets is the array of its comma-separated
\* values, anything else a number, a string, a boolean or a word
StatedScalar(t) ==
    LET v == P_value(t, 1)
    IN IF v.ok /\ v.pos = Len(t) + 1 THEN v.node ELSE Str(t)
StatedValue(t) ==
    IF Len(t) >= 2 /\ Ch(t, 1) = "[" /\ Ch(t, Len(t)) = "]"
    THEN Arr([k \in 1..Len(Split(SubSeq(t, 2, Len(t) - 1), ",", 1))
                 |-> StatedScalar(Trim(Split(SubSeq(t, 2, Len(t) - 1), ",", 1)[k]))])
    ELSE StatedScalar(t)

\* a condition line: field, operator, value
StatedCondition(l) ==
    LET field == P_identifier(l, 1)
        operator == IF field.ok THEN P_operator(l, P_whitespace(l, field.pos)) ELSE NoParse
        rest == IF operator.ok THEN Trim(SubSeq(l, operator.pos, Len(l))) ELSE ""
    IN IF operator.ok /\ rest # ""
       THEN Parsed(Condition(field.node, operator.node, StatedValue(rest)), Len(l) + 1)
       ELSE NoParse

\* the body lines of the sections, from the k-th line on
RECURSIVE StatedSections(_, _, _, _)
StatedSections(lines, k, section, acc) ==
    IF k > Len(lines) THEN acc
    ELSE IF lines[k] \in {"When", "Then", "Notes"}
         THEN StatedSections(lines, k + 1, lines[k], acc)
    ELSE StatedSections(lines, k + 1, section,
                        IF section = "none" THEN [acc EXCEPT !.stray = Append(@, lines[k])]
                        ELSE [acc EXCEPT ![section] = Append(@, lines[k])])

Stated(text) ==
    LET lines == TrimmedLines(text)
    IN IF Len(lines) = 0
       THEN [header |-> NoParse, When |-> <<>>, Then |-> <<>>, Notes |-> <<>>, stray |-> <<>>]
       ELSE [StatedSections(lines, 2, "none",
                            [When |-> <<>>, Then |-> <<>>, Notes |-> <<>>, stray |-> <<>>,
                             header |-> NoParse])
             EXCEPT !.header = StatedHeader(lines[1])]

\* the text is a rule as the language describes it: a header, a When
\* section of one to ten conditions, a Then section of one line
SyntacticallyValid(text) ==
    /\ Stated(text).header.ok
    /\ Stated(text).stray = <<>>
    /\ Len(Stated(text).When) \in 1..MaxConditionCount
    /\ \A k \in 1..Len(Stated(text).When) : StatedCondition(Stated(text).When[k]).ok
    /\ Len(Stated(text).Then) = 1

StatedConditions(text) ==
    [k \in 1..Len(Stated(text).When) |-> StatedCondition(Stated(text).When[k]).node]

SameCondition(a, b) == a.field = b.field /\ a.operator = b.operator /\ a.value = b.value

\* C11: for a syntactically valid rule text, whose header name may have
\* several words, parseRule returns a rule with the header's full name and
\* priority, the conditions of the When section in textual order and the
\* trimmed line of the Then section as the calculation.
C11_RoundTrip ==
    (ParseCalled /\ SyntacticallyValid(ruleText))
    =>
    /\ Returned(outcome)
    /\ outcome.value.name = Stated(ruleText).header.node.name
    /\ outcome.value.priority = Stated(ruleText).header.node.priority
    /\ Len(outcome.value.conditions) = Len(Stated(ruleText).When)
    /\ \A k \in 1..Len(Stated(ruleText).When) :
           SameCondition(outcome.value.conditions[k], StatedConditions(ruleText)[k])
    /\ outcome.value.calculation.expression = Stated(ruleText).Then[1]

\* parseRule got as far as building the rule it validates and returns
RuleBuilt ==
    /\ ParseCalled
    /\ WholeTextRead
    /\ HeaderSeen
    /\ Truthy(Locals.currentRule.priority)
    /\ CalculationCaptured

\* C12: the notes of the rule parseRule builds and returns are the body
\* lines of the Notes section, trimmed and joined with newlines in textual
\* order, and are absent exactly when the section has no body line.
C12_NotesCapture ==
    RuleBuilt =>
        RuleOf(Locals).notes = IF Len(Stated(ruleText).Notes) = 0 THEN Undefined
                               ELSE Str(Join(Stated(ruleText).Notes, "\n"))

\* C13: a When-section line "field in [v1, ..., vn]" with 1 to 10 values
\* yields a condition with operator in whose value is the array of the
\* values in order, and the rule parseRule builds contains that condition.
C13_ArrayLiteral ==
    RuleBuilt =>
        \A k \in 1..Len(Stated(ruleText).When) :
            LET c == StatedCondition(Stated(ruleText).When[k])
            IN (/\ c.ok
                /\ c.node.operator = "in"
                /\ c.node.value.t = "arr"
                /\ Len(c.node.value.a) \in 1..MaxArrayItems)
               => \E j \in 1..Len(Locals.conditions) :
                      SameCondition(Locals.conditions[j], c.node)

(***************************************************************************)
(* Properties of the operator in (under SpecEval)                          *)
(***************************************************************************)
\* the calculation of the rule, evaluated on its own by the entry point called
Calculated ==
    LET Substituted(e) ==
            IF Threw(e) THEN e
            ELSE IF op = "RuleEvaluator.evaluateRule"
                 THEN RuleEvaluator_evaluateExpression(e.value).outcome
                 ELSE IndentedTreeParser_evaluateExpression(e.value).outcome
    IN Substituted(IF op = "RuleEvaluator.evaluateRule"
                   THEN RuleEvaluator_substituteVariables(rule.calculation.expression, context)
                   ELSE IndentedTreeParser_substituteVariables(rule.calculation.expression,
                                                               context))

\* the rule's only condition is "field in A", A an array
OnlyInArray ==
    /\ Len(rule.conditions) = 1
    /\ rule.conditions[1].operator = "in"
    /\ rule.conditions[1].value.t = "arr"

\* x is an element of the list under ===
StrictMember(a, x) == \E k \in 1..Len(a) : StrictEquals(a[k], x, FALSE)
\* x is an element of the list as a value of the same type: === but for NaN,
\* which is an element of a list that holds NaN
SameValueMember(a, x) == StrictMember(a, x) \/ (IsNaN(x) /\ \E k \in 1..Len(a) : IsNaN(a[k]))

\* C14 as stated: with "field in A" as the only condition and a calculation
\* that evaluates, evaluateRule returns the calculation's result if
\* context[field] is an element of A under strict equality, and 0 otherwise.
C14_MembershipAsStated ==
    (Evaluated /\ OnlyInArray /\ Returned(Calculated))
    => outcome = IF StrictMember(rule.conditions[1].value.a,
                                 Lookup(context, rule.conditions[1].field))
                 THEN Calculated ELSE Ret(N(0))

\* C14: with "field in A" as the only condition, the field present in the
\* context and a calculation that evaluates, evaluateRule returns the
\* calculation's result if context[field] is an element of A as a value of
\* the same type (no coercion; NaN is an element of a list holding NaN),
\* and 0 otherwise.
C14_Membership ==
    (Evaluated /\ OnlyInArray /\ Returned(Calculated) /\ ~FieldAbsent(1))
    => outcome = IF SameValueMember(rule.conditions[1].value.a,
                                    Lookup(context, rule.conditions[1].field))
                 THEN Calculated ELSE Ret(N(0))

\* the string "1" was looked for in a list that holds the number 1, and the
\* rule returned 0 although its calculation gives another number
C14_Witness ==
    /\ Evaluated /\ OnlyInArray /\ Returned(Calculated)
    /\ Lookup(context, rule.conditions[1].field) = Str("1")
    /\ \E k \in 1..Len(rule.conditions[1].value.a) : rule.conditions[1].value.a[k] = N(1)
    /\ Calculated # Ret(N(0))
    /\ outcome = Ret(N(0))

\* the right-hand value of the i-th condition as the comparison is to use
\* it: the context's value when the value is a string naming a present key
ResolvedValue(i) ==
    IF /\ rule.conditions[i].value.t = "str"
       /\ rule.conditions[i].value.s \in DOMAIN context
    THEN context[rule.conditions[i].value.s]
    ELSE rule.conditions[i].value

\* the i-th condition is evaluated: the conditions before it are true
Reached(i) == \A j \in 1..(i - 1) : ConditionIsTrue(j)

\* C15: when a condition with operator in is evaluated, its field present in
\* the context, and its resolved right-hand value is no array, evaluateRule
\* fails with an evaluation error (it returns neither 0 nor a result).
C15_InNeedsArray ==
    (/\ Evaluated
     /\ \E i \in 1..Len(rule.conditions) :
            /\ Reached(i)
            /\ rule.conditions[i].operator = "in"
            /\ ~FieldAbsent(i)
            /\ ResolvedValue(i).t # "arr")
    => FailedWith("Operator 'in' requires an array value")

\* the second condition of a rule, after a true one, is "in" with a string
\* for a value, and the call has failed
C15_Witness ==
    /\ Evaluated
    /\ Len(rule.conditions) = 2
    /\ ConditionIsTrue(1)
    /\ rule.conditions[2].operator = "in"
    /\ ~FieldAbsent(2)
    /\ ResolvedValue(2).t = "str"
    /\ Threw(outcome)

\* C16: when a condition is evaluated, a value that is a string and a present
\* key of the context is replaced by the context's value for the
\* comparison; in every other case the value is used as it stands.
C16_RightValue ==
    Evaluated =>
        \A i \in 1..Len(rule.conditions) :
            (Reached(i) /\ ~FieldAbsent(i))
            => ConditionAlone(i)
                   = ApplyOperator(ErrorClassOf(op), rule.conditions[i],
                                   Lookup(context, rule.conditions[i].field),
                                   ResolvedValue(i),
                                   /\ rule.conditions[i].value.t = "str"
                                   /\ rule.conditions[i].value.s = rule.conditions[i].field)

(***************************************************************************)
(* Properties of parseRules (under SpecParse)                              *)
(***************************************************************************)
ParseRulesCalled == pc = "done" /\ op = "IndentedTreeParser.parseRules"

\* the blocks of the text that are not blank, in textual order, and what
\* parseRule gives for each of them alone
NonBlankBlocks == SelectSeq(Split(ruleText, "\n\n", 1), LAMBDA block : Trim(block) # "")
BlockAlone(k) == IndentedTreeParser_parseRule(NonBlankBlocks[k])

\* C17: parseRules returns one rule per non-blank block, in textual order,
\* each the rule parseRule returns for the block alone; or, when a block
\* fails, it fails as a whole with the ValidationError or ParserError of the
\* first block that fails, and returns no list.
C17_AllOrNothing ==
    ParseRulesCalled =>
        IF \A k \in 1..Len(NonBlankBlocks) : Returned(BlockAlone(k))
        THEN outcome = Ret([k \in 1..Len(NonBlankBlocks) |-> BlockAlone(k).value])
        ELSE \E k \in 1..Len(NonBlankBlocks) :
                /\ \A j \in 1..(k - 1) : Returned(BlockAlone(j))
                /\ Threw(BlockAlone(k))
                /\ BlockAlone(k).error.name \in {"ValidationError", "ParserError"}
                /\ outcome = BlockAlone(k)

\* a text of two blocks that fail differently, with a blank block between
\* them, has failed with the error of the first
C17_Witness ==
    /\ ParseRulesCalled
    /\ Len(Split(ruleText, "\n\n", 1)) > Len(NonBlankBlocks)
    /\ Len(NonBlankBlocks) = 2
    /\ BlockAlone(1).error.name = "ValidationError"
    /\ BlockAlone(2).error.name = "ParserError"
    /\ outcome = BlockAlone(1)

(***************************************************************************)
(* Properties of the assembly loop (under SpecAssemble)                    *)
(***************************************************************************)
\* reading the line leaves st as st2, gated by the section that is open
Gated(st, line, st2) ==
    /\ st2.conditions = IF line.type = "condition" /\ st.currentSection = Str("when")
                        THEN Append(st.conditions, line) ELSE st.conditions
    /\ st2.calculation = IF line.type = "calculation" /\ st.currentSection = Str("then")
                         THEN line ELSE st.calculation
    /\ st2.notes = IF line.type = "note" /\ st.currentSection = Str("notes")
                   THEN Append(st.notes, line.note) ELSE st.notes

\* C18: reading a line adds a condition line to conditions only when the
\* section is when, replaces the calculation by a calculation line only when
\* it is then, appends a note line only when it is notes; every other body
\* line leaves conditions, calculation and notes as they are, and the loop
\* goes on (no error).
C18_SectionGating ==
    [][rule # <<>> => /\ Gated(outcome, Head(rule), outcome')
                      /\ rule' = Tail(rule)
                      /\ pc' = "loop"]_vars

\* all lines are read: a condition was accepted in the When section, a line
\* that reads as a condition was dropped in the Then section, and the lines
\* of the Notes section were dropped
C18_Witness ==
    /\ pc = "loop" /\ rule = <<>>
    /\ Len(outcome.conditions) = 1
    /\ Len(Stated(ruleText).When) = 1
    /\ Len(Stated(ruleText).Then) = 2
    /\ Len(Stated(ruleText).Notes) = 2
    /\ outcome.calculation # Null
    /\ outcome.notes = <<>>

(***************************************************************************)
(* Properties of repeated evaluation (under SpecEval)                      *)
(***************************************************************************)
\* C19: a second call of evaluateRule with the same rule and the same context
\* has the outcome of the first: the same number returned, or the same
\* failure.
C19_Determinism == [][pc' = "again" => outcome' = outcome]_vars

OtherEntryPoint ==
    IF op = "RuleEvaluator.evaluateRule"
    THEN IndentedTreeParser_evaluateRule(rule, context).outcome
    ELSE RuleEvaluator_evaluateRule(rule, context).outcome

\* C21: on the same rule and context, the parser's evaluateRule and
\* RuleEvaluator.evaluateRule both return the same number, or both fail with
\* an error of the same kind.
C21_EntryPointsAgree ==
    pc = "done" =>
        \/ Returned(outcome) /\ Returned(OtherEntryPoint)
                             /\ outcome.value = OtherEntryPoint.value
        \/ Threw(outcome) /\ Threw(OtherEntryPoint)
                          /\ outcome.error.name = OtherEntryPoint.error.name

(***************************************************************************)
(* Conditions written with a single equals sign (under SpecParse)          *)
(***************************************************************************)
\* a line "field = value": a name, one equals sign, a value
SingleEquals(l) ==
    LET field == P_identifier(l, 1)
        sign == IF field.ok THEN P_whitespace(l, field.pos) ELSE 0
        rest == IF field.ok /\ Ch(l, sign) = "=" /\ Ch(l, sign + 1) # "="
                THEN Trim(SubSeq(l, sign + 1, Len(l))) ELSE ""
    IN IF rest # "" THEN Parsed([field |-> field.node, value |-> StatedValue(rest)], Len(l) + 1)
       ELSE NoParse

\* C22: a When-section line "field = value" gates the rule parseRule builds:
\* on a context whose field differs from the value, evaluating that rule
\* returns 0, whatever the other conditions give.
C22_SingleEqualsGates ==
    RuleBuilt =>
        \A k \in 1..Len(Stated(ruleText).When) : \A ctx \in Contexts :
            LET c == SingleEquals(Stated(ruleText).When[k])
            IN (/\ c.ok
                /\ c.node.field \in DOMAIN ctx
                /\ ctx[c.node.field] # c.node.value)
               => IndentedTreeParser_evaluateRule(RuleOf(Locals), ctx).outcome = Ret(N(0))

(***************************************************************************)
(* The captured calculation (under SpecAssemble)                           *)
(***************************************************************************)
\* every line of the text has been read
Assembled == pc = "loop" /\ rule = <<>>

\* the header the grammar reads in the first line that is not blank
HeaderRead == P_ruleHeader(TrimmedLines(ruleText)[1], 1)

\* C23: after all lines are read, the calculation is the trimmed text of the
\* last non-empty body line of the Then section, and the name and priority
\* are those of the header line; empty lines of the text and Then-body lines
\* read as another kind of line do not change or blank them.
C23_CapturedCalculation ==
    (Assembled /\ Len(Stated(ruleText).Then) > 0)
    =>
    /\ outcome.calculation # Null
    /\ outcome.calculation.expression
         = Stated(ruleText).Then[Len(Stated(ruleText).Then)]
    /\ HeaderRead.ok =>
         /\ outcome.currentRule.name = Str(HeaderRead.node.name)
         /\ outcome.currentRule.priority = HeaderRead.node.priority

(***************************************************************************)
(* The calculation check (under SpecCalculation)                           *)
(***************************************************************************)
\* the text between the first and the last character that is not a blank
StatedTrim(e) ==
    LET inked == {i \in 1..Len(e) : Ch(e, i) # " "}
    IN IF inked = {} THEN ""
       ELSE SubSeq(e, CHOOSE i \in inked : \A j \in inked : i <= j,
                      CHOOSE i \in inked : \A j \in inked : j <= i)

\* the running counter of '(' minus ')' from the i-th character on, starting
\* at depth: it never goes negative and ends at zero
RECURSIVE StatedBalanced(_, _, _)
StatedBalanced(e, i, depth) ==
    IF depth < 0 THEN FALSE
    ELSE IF i > Len(e) THEN depth = 0
    ELSE StatedBalanced(e, i + 1,
                        IF Ch(e, i) = "(" THEN depth + 1
                        ELSE IF Ch(e, i) = ")" THEN depth - 1 ELSE depth)

StatedAcceptable(e) ==
    /\ StatedTrim(e) # ""
    /\ \A i \in 1..Len(StatedTrim(e)) :
           Ch(StatedTrim(e), i) \in
               CharsOf("ABCDEFGHIJKLMNOPQRSTUVWXYZabcdefghijklmnopqrstuvwxyz0123456789_+-*/(). ")
    /\ StatedBalanced(StatedTrim(e), 1, 0)

C25_ReadOnly ==
    [][pc' \in {"done", "again"} =>
          /\ rule' = rule
          /\ context' = context
          /\ assigned'.mathjs = assigned.mathjs]_vars

(***************************************************************************)
(* The errors of parseRule (under SpecParse)                               *)
(***************************************************************************)
\* what the validator says of the rule that parseRule built
Verdict == RuleValidator_validateRule(RuleOf(Locals))

====
